---- MODULE Spec2Model ----
(***************************************************************************)
(* Tuning of P/PI/PID controllers for a first-order-plus-dead-time process *)
(* (tableTuning.py, torfin.py): argument validation, the coefficient       *)
(* catalog, the tune_* correlations, the aggregation of all records into   *)
(* one sorted list and the re-sorting of that list from the table header.  *)
(*                                                                         *)
(* Numbers.  A Python float is modelled by an exact rational [n, d] in     *)
(* lowest terms (d > 0), so +, *, / are the real operations; NaN is        *)
(* [n |-> 0, d |-> 0] and +inf is [n |-> 1, d |-> 0].  An operation that   *)
(* raises ZeroDivisionError in Python yields the value Raised, which every *)
(* later operation passes on: the function that computed it has raised.    *)
(* A negative float to a non-integer power is a complex number in Python:  *)
(* it is the value Complex, which arithmetic passes on without raising.    *)
(* tau0 ** x for a non-integer x is irrational; for the bases 0 and 1 it   *)
(* is computed exactly as Python does, for the other base of the model     *)
(* (0.3) it is tabulated to three decimals (PowTable).  f"{x:.4f}" rounds  *)
(* the rational half to even, so a value next to a tie of the fourth       *)
(* decimal can be printed with a last digit other than Python's.           *)
(***************************************************************************)
EXTENDS Integers, Sequences, FiniteSets, TLC

VARIABLES
    prog,           \* which script runs: "tableTuning" or "torfin"
    argv,           \* sys.argv[1:], a sequence of strings
    pc,             \* position of the run
    params,         \* (K, T, a, tau0) as returned by parse_args
    exit_in,        \* function in which the process ended ("" while running)
    error,          \* "", the message of parse_args, or the exception that ended the run
    catalog_read,   \* TRUE once the get_*_coeffs tables have been read
    tune_calls,     \* number of tune_* calls made
    local_results,  \* the local list all_results of the aggregation when it ended
    all_results,    \* TuningApp.all_results / the list main() holds
    current_sort,   \* TuningApp.current_sort = <<column, ascending>>
    tabla,          \* rows of the DataTable, as displayed
    printed,        \* torfin: <<PI table rows, PID table rows>> as printed
    resorts,        \* number of re-sorts done from the table header
    last_column,    \* column key of the last header selection ("" before the first)
    fills,          \* number of times _popular_tabla has filled the table
    call            \* one tune_* call made on its own: function, coefficients, returned tuple

vars == <<prog, argv, pc, params, exit_in, error, catalog_read, tune_calls,
          local_results, all_results, current_sort, tabla, printed, resorts,
          last_column, fills, call>>

\* Largest number of re-sorts followed in one run.
MaxResorts == 2

-----------------------------------------------------------------------------
(* Floats *)

\* the element of a set of one element; in Only({e(x) : x \in {v}}) the value v
\* is computed once, however often e refers to it
Only(S) == CHOOSE r \in S : TRUE

Abs(x) == IF x < 0 THEN -x ELSE x

RECURSIVE Gcd(_, _)
Gcd(x, y) == IF y = 0 THEN x ELSE Only({Gcd(p, r) : p \in {y}, r \in {x % y}})

\* the float written n/d (d > 0), in lowest terms
D(n, d) == Only({[n |-> n \div g, d |-> d \div g] : g \in {Gcd(Abs(n), d)}})

NaN == [n |-> 0, d |-> 0]
Inf == [n |-> 1, d |-> 0]
NegInf == [n |-> -1, d |-> 0]
Raised == [n |-> 0, d |-> 0, exc |-> "ZeroDivisionError"]
\* a complex number, whatever its value
Complex == [n |-> 0, d |-> -1]
Zero == D(0, 1)
One == D(1, 1)
Two == D(2, 1)

IsRaised(x) == "exc" \in DOMAIN x
IsNaN(x) == ~IsRaised(x) /\ x.d = 0 /\ x.n = 0
IsFinite(x) == ~IsRaised(x) /\ x.d > 0
IsComplex(x) == ~IsRaised(x) /\ x.d < 0

\* x < y on floats: false when either side is NaN
Lt(x, y) ==
    IF IsNaN(x) \/ IsNaN(y) THEN FALSE
    ELSE IF x.d = 0 /\ y.d = 0 THEN x.n < y.n
    ELSE IF y.d = 0 THEN y.n > 0
    ELSE IF x.d = 0 THEN x.n < 0
    ELSE x.n * y.d < y.n * x.d

\* x == y on floats: false when either side is NaN
Eq(x, y) == ~IsNaN(x) /\ ~IsNaN(y) /\ x = y
Le(x, y) == Lt(x, y) \/ Eq(x, y)

\* u + v on two finite floats
Sum(u, v) ==
    Only({D(u.n * (l \div u.d) + v.n * (l \div v.d), l) :
            l \in {(u.d \div Gcd(u.d, v.d)) * v.d}})

\* u * v on two finite floats
Product(u, v) ==
    IF u.n = 0 \/ v.n = 0 THEN Zero
    ELSE Only({[n |-> (u.n \div g1) * (v.n \div g2), d |-> (u.d \div g2) * (v.d \div g1)] :
                 g1 \in {Gcd(Abs(u.n), v.d)}, g2 \in {Gcd(Abs(v.n), u.d)}})

\* the infinity of sign s, NaN for s = 0 (0 * inf)
InfOf(s) == IF s > 0 THEN Inf ELSE IF s < 0 THEN NegInf ELSE NaN

\* the sign of a float that is not NaN
Sign(x) == IF x.n > 0 THEN 1 ELSE IF x.n < 0 THEN -1 ELSE 0

\* an operation on floats: an operand that raised ends the expression, a
\* complex operand gives a complex number, a NaN operand gives NaN, and the
\* infinities follow IEEE 754 (inf - inf, 0 * inf and inf / inf are NaN)
Add(x, y) ==
    Only({IF IsRaised(u) THEN u ELSE IF IsRaised(v) THEN v
          ELSE IF IsComplex(u) \/ IsComplex(v) THEN Complex
          ELSE IF IsNaN(u) \/ IsNaN(v) THEN NaN
          ELSE IF u.d = 0 /\ v.d = 0 THEN (IF u = v THEN u ELSE NaN)
          ELSE IF u.d = 0 THEN u
          ELSE IF v.d = 0 THEN v
          ELSE Sum(u, v) : u \in {x}, v \in {y}})

Mul(x, y) ==
    Only({IF IsRaised(u) THEN u ELSE IF IsRaised(v) THEN v
          ELSE IF IsComplex(u) \/ IsComplex(v) THEN Complex
          ELSE IF IsNaN(u) \/ IsNaN(v) THEN NaN
          ELSE IF u.d = 0 \/ v.d = 0 THEN InfOf(Sign(u) * Sign(v))
          ELSE Product(u, v) : u \in {x}, v \in {y}})

\* x / y: float division by zero raises ZeroDivisionError
Div(x, y) ==
    Only({IF IsRaised(u) THEN u ELSE IF IsRaised(v) THEN v
          ELSE IF IsFinite(v) /\ v.n = 0 THEN Raised
          ELSE IF IsComplex(u) \/ IsComplex(v) THEN Complex
          ELSE IF IsNaN(u) \/ IsNaN(v) \/ (u.d = 0 /\ v.d = 0) THEN NaN
          ELSE IF v.d = 0 THEN Zero
          ELSE IF u.d = 0 THEN InfOf(Sign(u) * Sign(v))
          ELSE IF v.n < 0 THEN Product(u, [n |-> -v.d, d |-> -v.n])
          ELSE Product(u, [n |-> v.d, d |-> v.n]) : u \in {x}, v \in {y}})


\* 0.3 ** (e / 10000) in thousandths, rounded, for every exponent e / 10000 of the catalog
PowTable ==
     -11940 :> 4210
  @@ -11230 :> 3865
  @@ -10850 :> 3693
  @@ -10640 :> 3600
  @@ -10630 :> 3596
  @@ -10540 :> 3557
  @@ -10420 :> 3506
  @@ -10410 :> 3502
  @@ -10120 :> 3382
  @@ -10100 :> 3374
  @@ -10050 :> 3353
  @@ -9990 :> 3329
  @@ -9910 :> 3297
  @@ -9860 :> 3278
  @@ -9850 :> 3274
  @@ -9780 :> 3246
  @@ -9770 :> 3242
  @@ -9710 :> 3219
  @@ -9700 :> 3215
  @@ -9600 :> 3177
  @@ -9520 :> 3146
  @@ -9470 :> 3127
  @@ -9450 :> 3120
  @@ -9210 :> 3031
  @@ -9190 :> 3024
  @@ -9170 :> 3016
  @@ -9160 :> 3013
  @@ -9110 :> 2995
  @@ -9100 :> 2991
  @@ -8690 :> 2847
  @@ -8610 :> 2820
  @@ -8500 :> 2783
  @@ -6190 :> 2107
  @@ -6180 :> 2104
  @@ -6160 :> 2099
  @@ -5870 :> 2027
  @@ -4750 :> 1772
  @@ -4160 :> 1650
  @@ -3720 :> 1565
  @@ -3600 :> 1543
  @@ -1340 :> 1175
  @@ -1210 :> 1157
  @@ -1140 :> 1147
  @@ -800 :> 1101
  @@ -760 :> 1096
  @@ -720 :> 1091
  @@ -670 :> 1084
  @@ -350 :> 1043
  @@ -330 :> 1041
  @@ -220 :> 1027
  @@ -200 :> 1024
  @@ -170 :> 1021
  @@ -130 :> 1016
  @@ -110 :> 1013
  @@ -70 :> 1008
  @@ 180 :> 979
  @@ 870 :> 901
  @@ 970 :> 890
  @@ 2110 :> 776
  @@ 3620 :> 647
  @@ 4460 :> 585
  @@ 4760 :> 564
  @@ 4850 :> 558
  @@ 5170 :> 537
  @@ 6080 :> 481
  @@ 6130 :> 478
  @@ 6800 :> 441
  @@ 7070 :> 427
  @@ 7380 :> 411
  @@ 7390 :> 411
  @@ 7490 :> 406
  @@ 7580 :> 401
  @@ 7630 :> 399
  @@ 7710 :> 395
  @@ 7800 :> 391
  @@ 8150 :> 375
  @@ 8690 :> 351
  @@ 9950 :> 302
  @@ 10060 :> 298
  @@ 11370 :> 254


\* x ** y as float.__pow__ computes it: anything ** 0 is 1.0, 1.0 ** y is 1.0,
\* 0.0 ** (negative) raises ZeroDivisionError, 0.0 ** (positive) is 0.0,
\* a negative number to a non-integer power is complex, and the table for
\* the powers of 0.3
PowBase == D(3, 10)

\* (60 / 19) ** -0.861 and (206 / 33) ** -0.916 to three decimals, 60 / 19
\* being 1.02 / 0.323 and 206 / 33 being 1.03 / 0.165:
\* the powers tune_rovira_PI takes where c + d * tau0 is zero
PowAtRoot ==
       <<[n |-> 60, d |-> 19], [n |-> -861, d |-> 1000]>> :> [n |-> 93, d |-> 250]
    @@ <<[n |-> 206, d |-> 33], [n |-> -229, d |-> 250]>> :> [n |-> 187, d |-> 1000]

\* 10.0 ** b to three decimals for the exponents b of the Rovira tables
PowOfTen ==
       [n |-> -861, d |-> 1000] :> [n |-> 69, d |-> 500]
    @@ [n |-> -229, d |-> 250] :> [n |-> 121, d |-> 1000]
    @@ [n |-> -869, d |-> 1000] :> [n |-> 27, d |-> 200]
    @@ [n |-> -17, d |-> 20] :> [n |-> 141, d |-> 1000]

Pow(x, y) ==
    Only({IF IsRaised(u) THEN u
          ELSE IF v = Zero THEN One
          ELSE IF IsNaN(u) THEN NaN
          ELSE IF u = One THEN One
          ELSE IF u = Zero THEN (IF v.n < 0 THEN Raised ELSE Zero)
          ELSE IF v = Two THEN Product(u, u)
          ELSE IF IsComplex(u) \/ (u.n < 0 /\ v.d > 1) THEN Complex
          ELSE CASE u = PowBase -> D(PowTable[v.n * (10000 \div v.d)], 1000)
                 [] <<u, v>> \in DOMAIN PowAtRoot -> PowAtRoot[<<u, v>>]
                 [] u = [n |-> 10, d |-> 1] -> PowOfTen[v] : u \in {x}, v \in {y}})

-----------------------------------------------------------------------------
(* Coefficient tables *)

get_usort_coeffs ==
     "regulador" :> (
          "PI" :> <<
            [Ms |-> D(20, 10), coeffs |->
              [a0 |-> D(265, 1000), a1 |-> D(603, 1000), a2 |-> D(-971, 1000),
               b0 |-> D(-1382, 1000), b1 |-> D(2837, 1000), b2 |-> D(211, 1000),
               c0 |-> D(0, 10), c1 |-> D(0, 10), c2 |-> D(0, 10),
               d0 |-> D(372, 1000), d1 |-> D(1205, 1000), d2 |-> D(608, 1000)]],
            [Ms |-> D(16, 10), coeffs |->
              [a0 |-> D(175, 1000), a1 |-> D(466, 1000), a2 |-> D(-911, 1000),
               b0 |-> D(-1382, 1000), b1 |-> D(2837, 1000), b2 |-> D(211, 1000),
               c0 |-> D(0, 10), c1 |-> D(0, 10), c2 |-> D(0, 10),
               d0 |-> D(446, 1000), d1 |-> D(811, 1000), d2 |-> D(446, 1000)]]
          >>
       @@ "PID" :> <<
            [Ms |-> D(20, 10), coeffs |->
              [a0 |-> D(235, 1000), a1 |-> D(840, 1000), a2 |-> D(-919, 1000),
               b0 |-> D(-198, 1000), b1 |-> D(1291, 1000), b2 |-> D(485, 1000),
               c0 |-> D(4, 1000), c1 |-> D(389, 1000), c2 |-> D(869, 1000),
               d0 |-> D(248, 1000), d1 |-> D(571, 1000), d2 |-> D(362, 1000)]],
            [Ms |-> D(16, 10), coeffs |->
              [a0 |-> D(435, 1000), a1 |-> D(551, 1000), a2 |-> D(-1123, 1000),
               b0 |-> D(95, 1000), b1 |-> D(1165, 1000), b2 |-> D(517, 1000),
               c0 |-> D(104, 1000), c1 |-> D(414, 1000), c2 |-> D(758, 1000),
               d0 |-> D(255, 1000), d1 |-> D(277, 1000), d2 |-> D(476, 1000)]]
          >>
     )
  @@ "servo" :> (
          "PI" :> <<
            [Ms |-> D(18, 10), coeffs |->
              [a0 |-> D(243, 1000), a1 |-> D(509, 1000), a2 |-> D(-1063, 1000),
               b0 |-> D(14650, 1000), b1 |-> D(8450, 1000), b2 |-> D(0, 1000), b3 |-> D(15740, 1000),
               c0 |-> D(0, 10), c1 |-> D(0, 10), c2 |-> D(0, 10),
               d0 |-> D(372, 1000), d1 |-> D(1205, 1000), d2 |-> D(608, 1000)]],
            [Ms |-> D(16, 10), coeffs |->
              [a0 |-> D(209, 1000), a1 |-> D(417, 1000), a2 |-> D(-1064, 1000),
               b0 |-> D(107, 1000), b1 |-> D(1164, 1000), b2 |-> D(377, 1000), b3 |-> D(66, 1000),
               c0 |-> D(0, 10), c1 |-> D(0, 10), c2 |-> D(0, 10),
               d0 |-> D(446, 1000), d1 |-> D(811, 1000), d2 |-> D(446, 1000)]]
          >>
       @@ "PID" :> <<
            [Ms |-> D(18, 10), coeffs |->
              [a0 |-> D(377, 1000), a1 |-> D(727, 1000), a2 |-> D(-1041, 1000),
               b0 |-> D(1687, 1000), b1 |-> D(3392, 10), b2 |-> D(3986, 100), b3 |-> D(12990, 10),
               c0 |-> D(-16, 1000), c1 |-> D(333, 1000), c2 |-> D(815, 1000),
               d0 |-> D(248, 1000), d1 |-> D(571, 1000), d2 |-> D(362, 1000)]],
            [Ms |-> D(16, 10), coeffs |->
              [a0 |-> D(502, 1000), a1 |-> D(518, 1000), a2 |-> D(-1194, 1000),
               b0 |-> D(135, 1000), b1 |-> D(1355, 1000), b2 |-> D(333, 1000), b3 |-> D(403, 1000),
               c0 |-> D(26, 1000), c1 |-> D(403, 1000), c2 |-> D(613, 1000),
               d0 |-> D(255, 1000), d1 |-> D(277, 1000), d2 |-> D(476, 1000)]]
          >>
     )

iae_reg ==
  <<
    [a |-> D(0, 10), coeffs |-> [a0 |-> D(124, 1000), a1 |-> D(886, 1000), a2 |-> D(-1005, 1000),
        b0 |-> D(-2422, 1000), b1 |-> D(3855, 1000), b2 |-> D(780, 1000)]],
    [a |-> D(25, 100), coeffs |-> [a0 |-> D(250, 1000), a1 |-> D(658, 1000), a2 |-> D(-991, 1000),
        b0 |-> D(272, 1000), b1 |-> D(1341, 1000), b2 |-> D(87, 1000)]],
    [a |-> D(5, 10), coeffs |-> [a0 |-> D(225, 1000), a1 |-> D(731, 1000), a2 |-> D(-1010, 1000),
        b0 |-> D(280, 1000), b1 |-> D(1627, 1000), b2 |-> D(-13, 1000)]],
    [a |-> D(75, 100), coeffs |-> [a0 |-> D(190, 1000), a1 |-> D(868, 1000), a2 |-> D(-999, 1000),
        b0 |-> D(223, 1000), b1 |-> D(2013, 1000), b2 |-> D(-22, 1000)]],
    [a |-> D(10, 10), coeffs |-> [a0 |-> D(184, 1000), a1 |-> D(994, 1000), a2 |-> D(-999, 1000),
        b0 |-> D(194, 1000), b1 |-> D(2358, 1000), b2 |-> D(-20, 1000)]]
  >>

itae_reg ==
  <<
    [a |-> D(0, 10), coeffs |-> [a0 |-> D(114, 1000), a1 |-> D(758, 1000), a2 |-> D(-1012, 1000),
        b0 |-> D(-1997, 1000), b1 |-> D(3273, 1000), b2 |-> D(763, 1000)]],
    [a |-> D(25, 100), coeffs |-> [a0 |-> D(179, 1000), a1 |-> D(598, 1000), a2 |-> D(-910, 1000),
        b0 |-> D(276, 1000), b1 |-> D(1161, 1000), b2 |-> D(97, 1000)]],
    [a |-> D(5, 10), coeffs |-> [a0 |-> D(212, 1000), a1 |-> D(592, 1000), a2 |-> D(-952, 1000),
        b0 |-> D(248, 1000), b1 |-> D(1437, 1000), b2 |-> D(18, 1000)]],
    [a |-> D(75, 100), coeffs |-> [a0 |-> D(191, 1000), a1 |-> D(648, 1000), a2 |-> D(-970, 1000),
        b0 |-> D(202, 1000), b1 |-> D(1691, 1000), b2 |-> D(-7, 1000)]],
    [a |-> D(10, 10), coeffs |-> [a0 |-> D(225, 1000), a1 |-> D(718, 1000), a2 |-> D(-978, 1000),
        b0 |-> D(239, 1000), b1 |-> D(1938, 1000), b2 |-> D(-11, 1000)]]
  >>

iae_ser ==
  <<
    [a |-> D(0, 10), coeffs |-> [a0 |-> D(265, 1000), a1 |-> D(509, 1000), a2 |-> D(-1042, 1000),
        b0 |-> D(433, 1000), b1 |-> D(922, 1000), b2 |-> D(-17, 1000)]],
    [a |-> D(25, 100), coeffs |-> [a0 |-> D(-35, 1000), a1 |-> D(761, 1000), a2 |-> D(-619, 1000),
        b0 |-> D(395, 1000), b1 |-> D(1117, 1000), b2 |-> D(-80, 1000)]],
    [a |-> D(5, 10), coeffs |-> [a0 |-> D(13, 1000), a1 |-> D(730, 1000), a2 |-> D(-616, 1000),
        b0 |-> D(382, 1000), b1 |-> D(1381, 1000), b2 |-> D(-114, 1000)]],
    [a |-> D(75, 100), coeffs |-> [a0 |-> D(-40, 1000), a1 |-> D(835, 1000), a2 |-> D(-587, 1000),
        b0 |-> D(353, 1000), b1 |-> D(1671, 1000), b2 |-> D(-121, 1000)]],
    [a |-> D(10, 10), coeffs |-> [a0 |-> D(35, 1000), a1 |-> D(825, 1000), a2 |-> D(-618, 1000),
        b0 |-> D(406, 1000), b1 |-> D(1903, 1000), b2 |-> D(-134, 1000)]]
  >>

itae_ser ==
  <<
    [a |-> D(0, 10), coeffs |-> [a0 |-> D(209, 1000), a1 |-> D(441, 1000), a2 |-> D(-1054, 1000),
        b0 |-> D(326, 1000), b1 |-> D(882, 1000), b2 |-> D(-35, 1000)]],
    [a |-> D(25, 100), coeffs |-> [a0 |-> D(-148, 1000), a1 |-> D(748, 1000), a2 |-> D(-475, 1000),
        b0 |-> D(316, 1000), b1 |-> D(1005, 1000), b2 |-> D(-33, 1000)]],
    [a |-> D(5, 10), coeffs |-> [a0 |-> D(-198, 1000), a1 |-> D(788, 1000), a2 |-> D(-416, 1000),
        b0 |-> D(307, 1000), b1 |-> D(1169, 1000), b2 |-> D(-67, 1000)]],
    [a |-> D(75, 100), coeffs |-> [a0 |-> D(-299, 1000), a1 |-> D(914, 1000), a2 |-> D(-372, 1000),
        b0 |-> D(299, 1000), b1 |-> D(1371, 1000), b2 |-> D(-76, 1000)]],
    [a |-> D(10, 10), coeffs |-> [a0 |-> D(-338, 1000), a1 |-> D(997, 1000), a2 |-> D(-360, 1000),
        b0 |-> D(291, 1000), b1 |-> D(1605, 1000), b2 |-> D(-72, 1000)]]
  >>

get_lopez_coeffs ==
     "P" :> (
          "ISE" :> [a |-> D(14110, 10000), b |-> D(-9170, 10000)]
       @@ "IAE" :> [a |-> D(9023, 10000), b |-> D(-9850, 10000)]
       @@ "ITAE" :> [a |-> D(4897, 10000), b |-> D(-10850, 10000)]
     )
  @@ "PI" :> (
          "ISE" :> [a |-> D(13050, 10000), b |-> D(-9600, 10000), c |-> D(20325, 10000), d |-> D(7390, 10000)]
       @@ "IAE" :> [a |-> D(9840, 10000), b |-> D(-9860, 10000), c |-> D(16447, 10000), d |-> D(7070, 10000)]
       @@ "ITAE" :> [a |-> D(8590, 10000), b |-> D(-9770, 10000), c |-> D(14837, 10000), d |-> D(6800, 10000)]
     )
  @@ "PID" :> (
          "ISE" :> [a |-> D(14950, 10000), b |-> D(-9450, 10000), c |-> D(9083, 10000), d |-> D(7710, 10000), e |-> D(5600, 10000), f |-> D(10060, 10000)]
       @@ "IAE" :> [a |-> D(14350, 10000), b |-> D(-9210, 10000), c |-> D(11390, 10000), d |-> D(7490, 10000), e |-> D(4820, 10000), f |-> D(11370, 10000)]
       @@ "ITAE" :> [a |-> D(13570, 10000), b |-> D(-9470, 10000), c |-> D(11876, 10000), d |-> D(7380, 10000), e |-> D(3810, 10000), f |-> D(9950, 10000)]
     )

get_rovira_coeffs ==
     "PI" :> (
          "IAE" :> [a |-> D(7580, 10000), b |-> D(-8610, 10000), c |-> D(10200, 10000), d |-> D(-3230, 10000)]
       @@ "ITAE" :> [a |-> D(5860, 10000), b |-> D(-9160, 10000), c |-> D(10300, 10000), d |-> D(-1650, 10000)]
     )
  @@ "PID" :> (
          "IAE" :> [a |-> D(10860, 10000), b |-> D(-8690, 10000), c |-> D(7400, 10000), d |-> D(-1300, 10000), e |-> D(3480, 10000), f |-> D(9140, 10000)]
       @@ "ITAE" :> [a |-> D(9650, 10000), b |-> D(-8500, 10000), c |-> D(7960, 10000), d |-> D(-1465, 10000), e |-> D(3080, 10000), f |-> D(9290, 10000)]
     )

-----------------------------------------------------------------------------
(* Strings and formatting *)

\* the code points of the strings the sorts compare
CodePoints ==
     "IAE (PI)" :> <<73, 65, 69, 32, 40, 80, 73, 41>>
  @@ "ITAE (PI)" :> <<73, 84, 65, 69, 32, 40, 80, 73, 41>>
  @@ "P (IAE)" :> <<80, 32, 40, 73, 65, 69, 41>>
  @@ "P (ISE)" :> <<80, 32, 40, 73, 83, 69, 41>>
  @@ "P (ITAE)" :> <<80, 32, 40, 73, 84, 65, 69, 41>>
  @@ "PI (IAE)" :> <<80, 73, 32, 40, 73, 65, 69, 41>>
  @@ "PI (ISE)" :> <<80, 73, 32, 40, 73, 83, 69, 41>>
  @@ "PI (ITAE)" :> <<80, 73, 32, 40, 73, 84, 65, 69, 41>>
  @@ "PI 1GdL" :> <<80, 73, 32, 49, 71, 100, 76>>
  @@ "PI 2GdL" :> <<80, 73, 32, 50, 71, 100, 76>>
  @@ "PID (IAE)" :> <<80, 73, 68, 32, 40, 73, 65, 69, 41>>
  @@ "PID (ISE)" :> <<80, 73, 68, 32, 40, 73, 83, 69, 41>>
  @@ "PID (ITAE)" :> <<80, 73, 68, 32, 40, 73, 84, 65, 69, 41>>
  @@ "PID 1GdL" :> <<80, 73, 68, 32, 49, 71, 100, 76>>
  @@ "PID 2GdL" :> <<80, 73, 68, 32, 50, 71, 100, 76>>
  @@ "López et al." :> <<76, 243, 112, 101, 122, 32, 101, 116, 32, 97, 108, 46>>
  @@ "Méndez & Rímolo" :> <<77, 233, 110, 100, 101, 122, 32, 38, 32, 82, 237, 109, 111, 108, 111>>
  @@ "Rovira et al." :> <<82, 111, 118, 105, 114, 97, 32, 101, 116, 32, 97, 108, 46>>
  @@ "uSORT1" :> <<117, 83, 79, 82, 84, 49>>
  @@ "uSORT2" :> <<117, 83, 79, 82, 84, 50>>
  @@ "Regulador" :> <<82, 101, 103, 117, 108, 97, 100, 111, 114>>
  @@ "Servo" :> <<83, 101, 114, 118, 111>>

\* u < v on sequences of integers: decided by the first position where they differ
SeqLt(u, v) ==
    \/ \E i \in 1..Len(u) :
          /\ i <= Len(v)
          /\ \A j \in 1..(i - 1) : u[j] = v[j]
          /\ u[i] < v[i]
    \/ /\ Len(u) < Len(v)
       /\ \A j \in 1..Len(u) : u[j] = v[j]

\* s < t on str: lexicographic on code points
StrLt(s, t) == SeqLt(CodePoints[s], CodePoints[t])

\* str.capitalize() of the two mode names
Capitalize(s) ==
    CASE s = "regulador" -> "Regulador"
      [] s = "servo" -> "Servo"

RECURSIVE Pow10(_)
Pow10(k) == IF k = 0 THEN 1 ELSE 10 * Pow10(k - 1)

\* the first k decimals of r/d (0 <= r < d) as an integer, and the remainder
RECURSIVE FracDigits(_, _, _)
FracDigits(r, d, k) ==
    IF k = 0 THEN <<0, r>>
    ELSE Only({<<((r * 10) \div d) * Pow10(k - 1) + rest[1], rest[2]>> :
                 rest \in {FracDigits((r * 10) % d, d, k - 1)}})

RECURSIVE PadDigits(_, _)
PadDigits(f, k) == IF k = 0 THEN "" ELSE PadDigits(f \div 10, k - 1) \o ToString(f % 10)

\* f"{x:.kf}": k decimals, round half to even, "nan", "inf", "-inf"
Fmt(x, k) ==
    LET digits(tot) == ToString(tot \div Pow10(k)) \o "." \o PadDigits(tot % Pow10(k), k)
        round(low, rem, d) ==
            IF 2 * rem > d \/ (2 * rem = d /\ low % 2 = 1) THEN low + 1 ELSE low
        finite(n, d) ==
            Only({(IF n < 0 THEN "-" ELSE "")
                    \o digits(round((Abs(n) \div d) * Pow10(k) + fr[1], fr[2], d)) :
                  fr \in {FracDigits(Abs(n) % d, d, k)}})
    IN Only({IF IsNaN(v) THEN "nan"
             ELSE IF v.d = 0 THEN (IF v.n < 0 THEN "-inf" ELSE "inf") ELSE finite(v.n, v.d) :
               v \in {x}})

ValueError == [n |-> 0, d |-> 0, exc |-> "ValueError"]

\* the strings float() accepts, among those the model passes to it
FloatLiterals ==
       "nan" :> NaN
    @@ "inf" :> Inf
    @@ "-1" :> D(-1, 1)
    @@ "0" :> D(0, 1)
    @@ "0.3" :> D(3, 10)
    @@ "0.25" :> D(25, 100)
    @@ "0.5" :> D(5, 10)
    @@ "0.9" :> D(9, 10)
    @@ "1" :> D(1, 1)
    @@ "2" :> D(2, 1)
    @@ "5" :> D(5, 1)
    @@ "1.6" :> D(16, 10)
    @@ "1.8" :> D(18, 10)
    @@ "2.0" :> D(20, 10)

\* float(s): the value, or ValueError for a string that is not a number
Float(s) == IF s \in DOMAIN FloatLiterals THEN FloatLiterals[s] ELSE ValueError

-----------------------------------------------------------------------------
(* Tuning functions: each returns <<Kp, Ti, Td, beta>> *)

\* the string "-" in the beta field
Dash == [s |-> "-"]

tune_mendez_reg_IAE(a, tau0, K, T, coeffs) ==
    LET kappa_p == Add(coeffs.a0, Mul(coeffs.a1, Pow(tau0, coeffs.a2)))
        Kp == Div(kappa_p, K)
        tau_i == Add(Mul(coeffs.b0, tau0), Mul(coeffs.b1, Pow(tau0, coeffs.b2)))
        Ti == Mul(tau_i, T)
    IN <<Kp, Ti, Zero, Dash>>

tune_mendez_reg_ITAE(a, tau0, K, T, coeffs) ==
    LET kappa_p == Add(coeffs.a0, Mul(coeffs.a1, Pow(tau0, coeffs.a2)))
        Kp == Div(kappa_p, K)
        tau_i == Add(Mul(coeffs.b0, tau0), Mul(coeffs.b1, Pow(tau0, coeffs.b2)))
        Ti == Mul(tau_i, T)
    IN <<Kp, Ti, Zero, Dash>>

tune_mendez_ser_IAE(a, tau0, K, T, coeffs) ==
    LET kappa_p == Add(coeffs.a0, Mul(coeffs.a1, Pow(tau0, coeffs.a2)))
        Kp == Div(kappa_p, K)
        numer == Add(Mul(coeffs.b0, tau0), Mul(coeffs.b1, Pow(tau0, coeffs.b2)))
        denom == Add(One, tau0)
        tau_i == IF ~Eq(denom, Zero) THEN Div(numer, denom) ELSE Zero
        Ti == Mul(tau_i, T)
    IN <<Kp, Ti, Zero, Dash>>

\* tune_mendez_ser_ITAE taking the zero-denominator fallback whatever the denominator
tune_mendez_ser_ITAE_fallback(a, tau0, K, T, coeffs) ==
    LET kappa_p == Add(coeffs.a0, Mul(coeffs.a1, Pow(tau0, coeffs.a2)))
        Kp == Div(kappa_p, K)
    IN <<Kp, Mul(Zero, T), Zero, Dash>>

tune_mendez_ser_ITAE(a, tau0, K, T, coeffs) ==
    LET kappa_p == Add(coeffs.a0, Mul(coeffs.a1, Pow(tau0, coeffs.a2)))
        Kp == Div(kappa_p, K)
        numer == Add(Mul(coeffs.b0, tau0), Mul(coeffs.b1, Pow(tau0, coeffs.b2)))
        denom == Add(One, tau0)
        tau_i == IF ~Eq(denom, Zero) THEN Div(numer, denom) ELSE Zero
        Ti == Mul(tau_i, T)
    IN <<Kp, Ti, Zero, Dash>>

\* tune_usort1_reg with the coefficients a0 and a1 of kappa_p exchanged
tune_usort1_reg_swapped(a, tau0, K, T, coeffs) ==
    LET kappa_p == Add(coeffs.a1, Mul(coeffs.a0, Pow(tau0, coeffs.a2)))
        tau_i == Add(coeffs.b0, Mul(coeffs.b1, Pow(tau0, coeffs.b2)))
        tau_d == Add(coeffs.c0, Mul(coeffs.c1, Pow(tau0, coeffs.c2)))
    IN <<Div(kappa_p, K), Mul(tau_i, T), Mul(tau_d, T), Dash>>

tune_usort1_reg(a, tau0, K, T, coeffs) ==
    LET kappa_p == Add(coeffs.a0, Mul(coeffs.a1, Pow(tau0, coeffs.a2)))
        Kp == Div(kappa_p, K)
        tau_i == Add(coeffs.b0, Mul(coeffs.b1, Pow(tau0, coeffs.b2)))
        Ti == Mul(tau_i, T)
        tau_d == Add(coeffs.c0, Mul(coeffs.c1, Pow(tau0, coeffs.c2)))
        Td == Mul(tau_d, T)
    IN <<Kp, Ti, Td, Dash>>

\* tune_usort1_servo with b2 * tau0 in place of b2 * tau0 ** 2
tune_usort1_servo_linear(a, tau0, K, T, coeffs) ==
    LET kappa_p == Add(coeffs.a0, Mul(coeffs.a1, Pow(tau0, coeffs.a2)))
        numer_i == Add(Add(coeffs.b0, Mul(coeffs.b1, tau0)), Mul(coeffs.b2, tau0))
        denom_i == Add(coeffs.b3, tau0)
        tau_i == IF ~Eq(denom_i, Zero) THEN Div(numer_i, denom_i) ELSE Zero
        tau_d == Add(coeffs.c0, Mul(coeffs.c1, Pow(tau0, coeffs.c2)))
    IN <<Div(kappa_p, K), Mul(tau_i, T), Mul(tau_d, T), Dash>>

tune_usort1_servo(a, tau0, K, T, coeffs) ==
    LET kappa_p == Add(coeffs.a0, Mul(coeffs.a1, Pow(tau0, coeffs.a2)))
        Kp == Div(kappa_p, K)
        numer_i == Add(Add(coeffs.b0, Mul(coeffs.b1, tau0)), Mul(coeffs.b2, Pow(tau0, Two)))
        denom_i == Add(coeffs.b3, tau0)
        tau_i == IF ~Eq(denom_i, Zero) THEN Div(numer_i, denom_i) ELSE Zero
        Ti == Mul(tau_i, T)
        tau_d == Add(coeffs.c0, Mul(coeffs.c1, Pow(tau0, coeffs.c2)))
        Td == Mul(tau_d, T)
    IN <<Kp, Ti, Td, Dash>>

\* tune_usort2_reg with a proportional gain that grows with a
tune_usort2_reg_using_a(a, tau0, K, T, coeffs) ==
    LET kappa_p == Add(coeffs.a0, Mul(coeffs.a1, Pow(tau0, coeffs.a2)))
        tau_i == Add(coeffs.b0, Mul(coeffs.b1, Pow(tau0, coeffs.b2)))
        tau_d == Add(coeffs.c0, Mul(coeffs.c1, Pow(tau0, coeffs.c2)))
        beta == Add(coeffs.d0, Mul(coeffs.d1, Pow(tau0, coeffs.d2)))
    IN <<Div(Mul(kappa_p, Add(One, a)), K), Mul(tau_i, T), Mul(tau_d, T), beta>>

tune_usort2_reg(a, tau0, K, T, coeffs) ==
    LET kappa_p == Add(coeffs.a0, Mul(coeffs.a1, Pow(tau0, coeffs.a2)))
        Kp == Div(kappa_p, K)
        tau_i == Add(coeffs.b0, Mul(coeffs.b1, Pow(tau0, coeffs.b2)))
        Ti == Mul(tau_i, T)
        tau_d == Add(coeffs.c0, Mul(coeffs.c1, Pow(tau0, coeffs.c2)))
        Td == Mul(tau_d, T)
        beta == Add(coeffs.d0, Mul(coeffs.d1, Pow(tau0, coeffs.d2)))
    IN <<Kp, Ti, Td, beta>>

\* tune_usort2_servo returning the one-degree-of-freedom tuple, without beta
tune_usort2_servo_one_dof(a, tau0, K, T, coeffs) ==
    tune_usort1_servo(a, tau0, K, T, coeffs)

\* tune_usort2_servo with a proportional gain that is not divided by K
tune_usort2_servo_unscaled(a, tau0, K, T, coeffs) ==
    LET kappa_p == Add(coeffs.a0, Mul(coeffs.a1, Pow(tau0, coeffs.a2)))
        numer_i == Add(Add(coeffs.b0, Mul(coeffs.b1, tau0)), Mul(coeffs.b2, Pow(tau0, Two)))
        denom_i == Add(coeffs.b3, tau0)
        tau_i == IF ~Eq(denom_i, Zero) THEN Div(numer_i, denom_i) ELSE Zero
        tau_d == Add(coeffs.c0, Mul(coeffs.c1, Pow(tau0, coeffs.c2)))
        beta == Add(coeffs.d0, Mul(coeffs.d1, Pow(tau0, coeffs.d2)))
    IN <<kappa_p, Mul(tau_i, T), Mul(tau_d, T), beta>>

tune_usort2_servo(a, tau0, K, T, coeffs) ==
    LET kappa_p == Add(coeffs.a0, Mul(coeffs.a1, Pow(tau0, coeffs.a2)))
        Kp == Div(kappa_p, K)
        numer_i == Add(Add(coeffs.b0, Mul(coeffs.b1, tau0)), Mul(coeffs.b2, Pow(tau0, Two)))
        denom_i == Add(coeffs.b3, tau0)
        tau_i == IF ~Eq(denom_i, Zero) THEN Div(numer_i, denom_i) ELSE Zero
        Ti == Mul(tau_i, T)
        tau_d == Add(coeffs.c0, Mul(coeffs.c1, Pow(tau0, coeffs.c2)))
        Td == Mul(tau_d, T)
        beta == Add(coeffs.d0, Mul(coeffs.d1, Pow(tau0, coeffs.d2)))
    IN <<Kp, Ti, Td, beta>>

\* tune_lopez_P reporting an integral time of one instead of 0.0
tune_lopez_P_integral(tau0, K, prm) ==
    <<Div(Mul(prm.a, Pow(tau0, prm.b)), K), One, Zero, Dash>>

\* tune_lopez_P with the division by K forgotten
tune_lopez_P_unscaled(tau0, K, prm) ==
    <<Mul(prm.a, Pow(tau0, prm.b)), Zero, Zero, Dash>>

tune_lopez_P(tau0, K, prm) ==
    LET kpk == Mul(prm.a, Pow(tau0, prm.b))
        Kp == Div(kpk, K)
    IN <<Kp, Zero, Zero, Dash>>

tune_lopez_PI(tau0, K, T, prm) ==
    LET kpk == Mul(prm.a, Pow(tau0, prm.b))
        Kp == Div(kpk, K)
        tau_i == Mul(prm.c, Pow(tau0, prm.d))
        Ti == Mul(tau_i, T)
    IN <<Kp, Ti, Zero, Dash>>

\* tune_lopez_PID with the derivative time left in units of T
tune_lopez_PID_Td_unscaled(tau0, K, T, prm) ==
    LET kpk == Mul(prm.a, Pow(tau0, prm.b))
        tau_i == Mul(prm.c, Pow(tau0, prm.d))
        tau_d == Mul(prm.e, Pow(tau0, prm.f))
    IN <<Div(kpk, K), Mul(tau_i, T), tau_d, Dash>>

tune_lopez_PID(tau0, K, T, prm) ==
    LET kpk == Mul(prm.a, Pow(tau0, prm.b))
        Kp == Div(kpk, K)
        tau_i == Mul(prm.c, Pow(tau0, prm.d))
        Ti == Mul(tau_i, T)
        tau_d == Mul(prm.e, Pow(tau0, prm.f))
        Td == Mul(tau_d, T)
    IN <<Kp, Ti, Td, Dash>>

\* tune_rovira_PI dividing without looking at the denominator
tune_rovira_PI_unguarded(tau0, K, T, prm) ==
    LET kpk == Mul(prm.a, Pow(tau0, prm.b))
        denom == Add(prm.c, Mul(prm.d, tau0))
    IN <<Div(kpk, K), Mul(Div(One, denom), T), Zero, Dash>>

tune_rovira_PI(tau0, K, T, prm) ==
    LET kpk == Mul(prm.a, Pow(tau0, prm.b))
        Kp == Div(kpk, K)
        denom == Add(prm.c, Mul(prm.d, tau0))
        tau_i == IF ~Eq(denom, Zero) THEN Div(One, denom) ELSE Zero
        Ti == Mul(tau_i, T)
    IN <<Kp, Ti, Zero, Dash>>

\* tune_rovira_PID with negative times replaced by zero
tune_rovira_PID_clamped(tau0, K, T, prm) ==
    LET clamp(x) == IF Lt(x, Zero) THEN Zero ELSE x
        kpk == Mul(prm.a, Pow(tau0, prm.b))
        tau_i == Add(prm.c, Mul(prm.d, tau0))
        tau_d == Add(prm.e, Mul(prm.f, tau0))
    IN <<Div(kpk, K), clamp(Mul(tau_i, T)), clamp(Mul(tau_d, T)), Dash>>

tune_rovira_PID(tau0, K, T, prm) ==
    LET kpk == Mul(prm.a, Pow(tau0, prm.b))
        Kp == Div(kpk, K)
        tau_i == Add(prm.c, Mul(prm.d, tau0))
        Ti == Mul(tau_i, T)
        tau_d == Add(prm.e, Mul(prm.f, tau0))
        Td == Mul(tau_d, T)
    IN <<Kp, Ti, Td, Dash>>

-----------------------------------------------------------------------------
(* Lists and list.sort *)

\* the list with the elements f[1], ..., f[n]
List(f) == f \o <<>>

RECURSIVE Concat(_)
Concat(ss) == IF Len(ss) = 0 THEN <<>> ELSE Head(ss) \o Concat(Tail(ss))

Reverse(s) == List([i \in 1..Len(s) |-> s[Len(s) + 1 - i]])

\* a str as an element of a sort key
Str(s) == [s |-> s]

ItemEq(u, v) == IF "s" \in DOMAIN u THEN u.s = v.s ELSE Eq(u, v)
ItemLt(u, v) == IF "s" \in DOMAIN u THEN StrLt(u.s, v.s) ELSE Lt(u, v)

\* k1 < k2 on keys (tuples of equal length): decided by the first position
\* where the items differ
KeyLt(k1, k2) ==
    \E i \in 1..Len(k1) :
        /\ \A j \in 1..(i - 1) : ItemEq(k1[j], k2[j])
        /\ ~ItemEq(k1[i], k2[i])
        /\ ItemLt(k1[i], k2[i])

\* A sort that is not stable: the elements with an equal key end in the reverse
\* of the order they had.
UnstableSort(s) ==
    LET position(i) ==
            Cardinality({j \in 1..Len(s) : KeyLt(s[j].k, s[i].k)})
            + Cardinality({j \in i..Len(s) : ~KeyLt(s[j].k, s[i].k) /\ ~KeyLt(s[i].k, s[j].k)})
    IN Only({List([p \in 1..Len(s) |-> s[CHOOSE i \in 1..Len(s) : pos[i] = p]]) :
               pos \in {List([i \in 1..Len(s) |-> position(i)])}})

\* The stable sort of a list of [k, v] pairs by k: element i lands after every
\* element with a smaller key and after the earlier elements with an equal key.
StableSort(s) ==
    LET position(i) ==
            Cardinality({j \in 1..Len(s) : KeyLt(s[j].k, s[i].k)})
            + Cardinality({j \in 1..i : ~KeyLt(s[j].k, s[i].k) /\ ~KeyLt(s[i].k, s[j].k)})
    IN Only({List([p \in 1..Len(s) |-> s[CHOOSE i \in 1..Len(s) : pos[i] = p]]) :
               pos \in {List([i \in 1..Len(s) |-> position(i)])}})

\* list.sort(key=..., reverse=reverse) of the list s, keys[i] being the key of
\* s[i]: the keys are computed once, the sort is stable, and reverse=True
\* reverses the list before and after sorting
list_sort(s, keys, reverse) ==
    LET keyed == List([i \in 1..Len(s) |-> [k |-> keys[i], v |-> s[i]]])
        values(out) == List([i \in 1..Len(out) |-> out[i].v])
    IN Only({values(IF reverse THEN Reverse(out) ELSE out) :
               out \in {StableSort(in) : in \in {IF reverse THEN Reverse(keyed) ELSE keyed}}})

-----------------------------------------------------------------------------
(* construir_y_ordenar_resultados *)

Record(metodo, variante, modo, ms, result) ==
    Only({[Metodo |-> metodo, Variante |-> variante, Modo |-> modo, MsCriterio |-> ms,
           Kp |-> r[1], Ti |-> r[2], Td |-> r[3], beta |-> r[4]] : r \in {result}})

\* the call that computed the record raised
RecordRaised(rec) ==
    IsRaised(rec.Kp) \/ IsRaised(rec.Ti) \/ IsRaised(rec.Td) \/ IsRaised(rec.beta)

Call(rec) == [kind |-> "call", rec |-> rec]
Exit == [kind |-> "exit"]

ms_a_float(valor) == Only({IF IsRaised(f) THEN Inf ELSE f : f \in {Float(valor)}})

\* key in dict, dict[key] for the tables indexed by a
HasRow(dict, a) == \E i \in 1..Len(dict) : Eq(dict[i].a, a)
Row(dict, a) == dict[CHOOSE i \in 1..Len(dict) : Eq(dict[i].a, a)].coeffs

\* the uSORT enumeration with the second call of every pair labelled as the first
usort_steps_same_label(K, T, a, tau0) ==
    LET modos == <<"regulador", "servo">>
        controladores == <<"PI", "PID">>
        one(modo, controlador, item) ==
            <<Call(Record("uSORT1", controlador \o " 1GdL", Capitalize(modo), Fmt(item.Ms, 1),
                    IF modo = "regulador" THEN tune_usort1_reg(a, tau0, K, T, item.coeffs)
                    ELSE tune_usort1_servo(a, tau0, K, T, item.coeffs))),
              Call(Record("uSORT1", controlador \o " 1GdL", Capitalize(modo), Fmt(item.Ms, 1),
                    IF modo = "regulador" THEN tune_usort2_reg(a, tau0, K, T, item.coeffs)
                    ELSE tune_usort2_servo(a, tau0, K, T, item.coeffs)))>>
        items(modo, controlador) == get_usort_coeffs[modo][controlador]
    IN Concat([m \in 1..2 |-> Concat([c \in 1..2 |->
           Concat([i \in 1..Len(items(modos[m], controladores[c])) |->
               one(modos[m], controladores[c], items(modos[m], controladores[c])[i])])])])

\* 1) uSORT1 and uSORT2: two calls for every (modo, controlador, Ms)
usort_steps(K, T, a, tau0) ==
    LET modos == <<"regulador", "servo">>
        controladores == <<"PI", "PID">>
        one(modo, controlador, item) ==
            <<Call(Record("uSORT1", controlador \o " 1GdL", Capitalize(modo), Fmt(item.Ms, 1),
                    IF modo = "regulador" THEN tune_usort1_reg(a, tau0, K, T, item.coeffs)
                    ELSE tune_usort1_servo(a, tau0, K, T, item.coeffs))),
              Call(Record("uSORT2", controlador \o " 2GdL", Capitalize(modo), Fmt(item.Ms, 1),
                    IF modo = "regulador" THEN tune_usort2_reg(a, tau0, K, T, item.coeffs)
                    ELSE tune_usort2_servo(a, tau0, K, T, item.coeffs)))>>
        items(modo, controlador) == get_usort_coeffs[modo][controlador]
    IN Concat([m \in 1..2 |-> Concat([c \in 1..2 |->
           Concat([i \in 1..Len(items(modos[m], controladores[c])) |->
               one(modos[m], controladores[c], items(modos[m], controladores[c])[i])])])])

\* Mendez & Rimolo with a criterion whose tables have no row for a left out
\* instead of ending the process
mendez_steps_skipping(K, T, a, tau0) ==
    LET one(crit, coeff_dict_reg, coeff_dict_ser) ==
            IF ~HasRow(coeff_dict_reg, a) \/ ~HasRow(coeff_dict_ser, a) THEN <<>>
            ELSE <<Call(Record("Méndez & Rímolo", crit \o " (PI)", "Regulador", crit,
                        IF crit = "IAE" THEN tune_mendez_reg_IAE(a, tau0, K, T, Row(coeff_dict_reg, a))
                        ELSE tune_mendez_reg_ITAE(a, tau0, K, T, Row(coeff_dict_reg, a)))),
                   Call(Record("Méndez & Rímolo", crit \o " (PI)", "Servo", crit,
                        IF crit = "IAE" THEN tune_mendez_ser_IAE(a, tau0, K, T, Row(coeff_dict_ser, a))
                        ELSE tune_mendez_ser_ITAE(a, tau0, K, T, Row(coeff_dict_ser, a))))>>
    IN one("IAE", iae_reg, iae_ser) \o one("ITAE", itae_reg, itae_ser)

\* 2) Mendez & Rimolo: the process exits when a has no row, else two calls per criterion
mendez_steps(K, T, a, tau0) ==
    LET one(crit, coeff_dict_reg, coeff_dict_ser) ==
            IF ~HasRow(coeff_dict_reg, a) \/ ~HasRow(coeff_dict_ser, a) THEN <<Exit>>
            ELSE <<Call(Record("Méndez & Rímolo", crit \o " (PI)", "Regulador", crit,
                        IF crit = "IAE" THEN tune_mendez_reg_IAE(a, tau0, K, T, Row(coeff_dict_reg, a))
                        ELSE tune_mendez_reg_ITAE(a, tau0, K, T, Row(coeff_dict_reg, a)))),
                   Call(Record("Méndez & Rímolo", crit \o " (PI)", "Servo", crit,
                        IF crit = "IAE" THEN tune_mendez_ser_IAE(a, tau0, K, T, Row(coeff_dict_ser, a))
                        ELSE tune_mendez_ser_ITAE(a, tau0, K, T, Row(coeff_dict_ser, a))))>>
    IN one("IAE", iae_reg, iae_ser) \o one("ITAE", itae_reg, itae_ser)

\* 3) Lopez et al.: P, PI, PID for ISE, IAE, ITAE
lopez_steps(K, T, a, tau0) ==
    LET ctrl_types == <<"P", "PI", "PID">>
        crits == <<"ISE", "IAE", "ITAE">>
        one(ctrl_type, crit) ==
            LET prm == get_lopez_coeffs[ctrl_type][crit]
            IN Call(Record("López et al.", ctrl_type \o " (" \o crit \o ")", "Regulador", crit,
                    IF ctrl_type = "P" THEN tune_lopez_P(tau0, K, prm)
                    ELSE IF ctrl_type = "PI" THEN tune_lopez_PI(tau0, K, T, prm)
                    ELSE tune_lopez_PID(tau0, K, T, prm)))
    IN Concat([c \in 1..3 |-> [k \in 1..3 |-> one(ctrl_types[c], crits[k])]])

\* Rovira et al. with the PID controller left out of the catalog loop
rovira_steps_PI_only(K, T, a, tau0) ==
    LET crits == <<"IAE", "ITAE">>
        one(crit) ==
            Call(Record("Rovira et al.", "PI (" \o crit \o ")", "Servo", crit,
                 tune_rovira_PI(tau0, K, T, get_rovira_coeffs["PI"][crit])))
    IN [k \in 1..2 |-> one(crits[k])]

\* 4) Rovira et al.: PI, PID for IAE, ITAE
rovira_steps(K, T, a, tau0) ==
    LET ctrl_types == <<"PI", "PID">>
        crits == <<"IAE", "ITAE">>
        one(ctrl_type, crit) ==
            LET prm == get_rovira_coeffs[ctrl_type][crit]
            IN Call(Record("Rovira et al.", ctrl_type \o " (" \o crit \o ")", "Servo", crit,
                    IF ctrl_type = "PI" THEN tune_rovira_PI(tau0, K, T, prm)
                    ELSE tune_rovira_PID(tau0, K, T, prm)))
    IN Concat([c \in 1..2 |-> [k \in 1..2 |-> one(ctrl_types[c], crits[k])]])

\* Runs the steps in order: a call that raises and the exit end the run, every
\* call before that has appended its record to the list.
RunSteps(steps) ==
    LET stops == {i \in 1..Len(steps) :
                    steps[i].kind = "exit" \/ RecordRaised(steps[i].rec)}
        stop == CHOOSE i \in stops : \A j \in stops : i <= j
        done == IF stops = {} THEN Len(steps) ELSE stop - 1
        list == List([i \in 1..done |-> steps[i].rec])
    IN IF stops = {} THEN [status |-> "ok", list |-> list, calls |-> done]
       ELSE IF steps[stop].kind = "exit"
            THEN [status |-> "SystemExit", list |-> list, calls |-> done]
       ELSE [status |-> "ZeroDivisionError", list |-> list, calls |-> done + 1]

\* the steps of the loops 1) to 4), in the order of the code
all_steps(K, T, a, tau0) ==
    usort_steps(K, T, a, tau0) \o mendez_steps(K, T, a, tau0)
      \o lopez_steps(K, T, a, tau0) \o rovira_steps(K, T, a, tau0)

\* the loops 1) to 4) of the aggregation
build_results(K, T, a, tau0) ==
    Only({RunSteps(steps) : steps \in {all_steps(K, T, a, tau0)}})

\* key of the initial order: (Variante, Metodo, Modo, Ms/Criterio as a number)
\* the key without its Ms/Criterio component
initial_key_no_ms(x) == <<Str(x.Variante), Str(x.Metodo), Str(x.Modo)>>

initial_key(x) == <<Str(x.Variante), Str(x.Metodo), Str(x.Modo), ms_a_float(x.MsCriterio)>>

\* [status, value returned, local list all_results at the end, calls made]
construir_y_ordenar_resultados(K, T, a, tau0) ==
    LET returned(run) ==
            Only({[status |-> "ok", value |-> sorted, local |-> sorted, calls |-> run.calls] :
                    sorted \in {list_sort(run.list, [i \in 1..Len(run.list) |-> initial_key(run.list[i])], FALSE)}})
        raised(run) ==
            [status |-> run.status, value |-> <<>>, local |-> run.list, calls |-> run.calls]
    IN Only({IF run.status = "ok" THEN returned(run) ELSE raised(run) :
               run \in {build_results(K, T, a, tau0)}})

-----------------------------------------------------------------------------
(* parse_args *)

allowed_a == {D(0, 10), D(25, 100), D(5, 10), D(75, 100), D(10, 10)}

\* x in allowed_a: membership in a set of floats is by ==
InAllowed(x) == \E y \in allowed_a : Eq(x, y)

\* [status, message printed before sys.exit(1), K, T, a, tau0]
parse_args(args) ==
    LET K == Float(args[1])
        T == Float(args[2])
        a == Float(args[3])
        tau0 == Float(args[4])
        exit(msg) == [status |-> "exit", msg |-> msg, K |-> NaN, T |-> NaN, a |-> NaN, tau0 |-> NaN]
    IN IF Len(args) + 1 # 5
       THEN exit("ERROR: Número incorrecto de argumentos.")
       ELSE IF IsRaised(K) \/ IsRaised(T) \/ IsRaised(a) \/ IsRaised(tau0)
       THEN exit("ERROR: Todos los argumentos deben ser números válidos.")
       ELSE IF Le(K, Zero) \/ Le(T, Zero)
       THEN exit("ERROR: K y T deben ser mayores que 0.")
       ELSE IF ~InAllowed(a)
       THEN exit("ERROR: El valor de a debe ser uno de [0.0, 0.25, 0.5, 0.75, 1.0].")
       ELSE IF Lt(tau0, Zero)
       THEN exit("ERROR: tau0 debe ser un número no negativo.")
       ELSE [status |-> "ok", msg |-> "", K |-> K, T |-> T, a |-> a, tau0 |-> tau0]

-----------------------------------------------------------------------------
(* TuningApp *)

\* the row add_row receives for a record
FormatRow(r) ==
    <<r.Variante, r.Metodo, r.Modo, r.MsCriterio, Fmt(r.Kp, 4), Fmt(r.Ti, 4), Fmt(r.Td, 4),
      IF "s" \in DOMAIN r.beta THEN r.beta.s ELSE Fmt(r.beta, 4)>>

\* _popular_tabla: the table cleared and filled again from the list
popular_tabla(results) == List([i \in 1..Len(results) |-> FormatRow(results[i])])

Columns == {"Variante", "Método", "Modo", "Ms/Criterio", "Kp", "Ti", "Td", "β"}
SortableColumns == {"Variante", "Método", "Modo", "Ms/Criterio"}

Field(x, columna) ==
    CASE columna = "Variante" -> x.Variante
      [] columna = "Método" -> x.Metodo
      [] columna = "Modo" -> x.Modo
      [] columna = "Ms/Criterio" -> x.MsCriterio

\* a conversion that gives 0.0 where float() fails
header_ms_a_float_zero(valor) == Only({IF IsRaised(f) THEN Zero ELSE f : f \in {Float(valor)}})

\* ms_a_float of on_data_table_header_selected
header_ms_a_float(valor) == Only({IF IsRaised(f) THEN Inf ELSE f : f \in {Float(valor)}})

\* keyfunc of on_data_table_header_selected
keyfunc(x, columna) ==
    IF columna = "Ms/Criterio" THEN <<header_ms_a_float(x.MsCriterio)>>
    ELSE <<Str(Field(x, columna))>>

\* a handler that sorts ascending and reverses the list for the descending order
header_selected_reversing(sort, results, columna) ==
    LET asc_actual == sort[1] = columna /\ sort[2] = TRUE
        nuevo_asc == ~asc_actual
        keys == [i \in 1..Len(results) |-> keyfunc(results[i], columna)]
    IN <<<<columna, nuevo_asc>>,
         IF nuevo_asc THEN list_sort(results, keys, FALSE)
         ELSE Reverse(list_sort(results, keys, FALSE))>>

\* a handler that flips the direction whatever the column
header_selected_toggling(sort, results, columna) ==
    LET nuevo_asc == ~sort[2]
        keys == [i \in 1..Len(results) |-> keyfunc(results[i], columna)]
    IN <<<<columna, nuevo_asc>>, list_sort(results, keys, ~nuevo_asc)>>

\* a handler whose sort loses the last record of the list
header_selected_truncating(sort, results, columna) ==
    LET asc_actual == sort[1] = columna /\ sort[2] = TRUE
        nuevo_asc == ~asc_actual
        keys == [i \in 1..Len(results) |-> keyfunc(results[i], columna)]
    IN <<<<columna, nuevo_asc>>,
         Only({SubSeq(sorted, 1, Len(sorted) - 1) : sorted \in {list_sort(results, keys, ~nuevo_asc)}})>>

\* a handler that records the new sort state and leaves the list as it was
header_selected_keeping(sort, results, columna) ==
    LET asc_actual == sort[1] = columna /\ sort[2] = TRUE
        nuevo_asc == ~asc_actual
    IN <<<<columna, nuevo_asc>>, results>>

\* <<new current_sort, new all_results>> of a selection of a sortable column
header_selected(sort, results, columna) ==
    LET asc_actual == sort[1] = columna /\ sort[2] = TRUE
        nuevo_asc == ~asc_actual
        keys == [i \in 1..Len(results) |-> keyfunc(results[i], columna)]
    IN <<<<columna, nuevo_asc>>, list_sort(results, keys, ~nuevo_asc)>>

\* a handler that records the selected column before it looks whether the
\* column is sortable, and fills the table again
on_data_table_header_selected_recording(sort, results, columna) ==
    IF columna \notin SortableColumns
    THEN [current_sort |-> <<columna, TRUE>>, all_results |-> results, repopulated |-> TRUE]
    ELSE Only({[current_sort |-> r[1], all_results |-> r[2], repopulated |-> TRUE] :
                 r \in {header_selected(sort, results, columna)}})

\* the handler of a header selection: a column that is not sortable returns
\* at once; repopulated tells whether _popular_tabla was called
on_data_table_header_selected(sort, results, columna) ==
    IF columna \notin SortableColumns
    THEN [current_sort |-> sort, all_results |-> results, repopulated |-> FALSE]
    ELSE Only({[current_sort |-> r[1], all_results |-> r[2], repopulated |-> TRUE] :
                 r \in {header_selected(sort, results, columna)}})

-----------------------------------------------------------------------------
(* torfin.py: the two printed tables *)

\* needle in hay, on the code points of two strings
Contains(hay, needle) ==
    \E i \in 0..(Len(hay) - Len(needle)) : SubSeq(hay, i + 1, i + Len(needle)) = needle

StartsWith(s, prefix) == Len(prefix) <= Len(s) /\ SubSeq(s, 1, Len(prefix)) = prefix

\* "PID" in var and not var.startswith("P (")
IsPid(entry) ==
    /\ Contains(CodePoints[entry.Variante], <<80, 73, 68>>)
    /\ ~StartsWith(CodePoints[entry.Variante], <<80, 32, 40>>)

\* the else branch of the split
IsPi(entry) == ~IsPid(entry)

display_key(x) == <<Str(x.Modo), Str(x.Metodo)>>

\* the rows display_pi_table prints: no Td column
display_pi_table(results_pi) ==
    LET row(r) ==
            <<r.Metodo, r.Variante, r.Modo, r.MsCriterio, Fmt(r.Kp, 4), Fmt(r.Ti, 4),
              IF "s" \in DOMAIN r.beta THEN r.beta.s ELSE Fmt(r.beta, 4)>>
    IN Only({List([i \in 1..Len(results_sorted) |-> row(results_sorted[i])]) :
               results_sorted \in {list_sort(results_pi, [i \in 1..Len(results_pi) |-> display_key(results_pi[i])], TRUE)}})

\* the rows display_pid_table prints
display_pid_table(results_pid) ==
    LET row(r) ==
            <<r.Metodo, r.Variante, r.Modo, r.MsCriterio, Fmt(r.Kp, 4), Fmt(r.Ti, 4), Fmt(r.Td, 4),
              IF "s" \in DOMAIN r.beta THEN r.beta.s ELSE Fmt(r.beta, 4)>>
    IN Only({List([i \in 1..Len(results_sorted) |-> row(results_sorted[i])]) :
               results_sorted \in {list_sort(results_pid, [i \in 1..Len(results_pid) |-> display_key(results_pid[i])], TRUE)}})

-----------------------------------------------------------------------------
(* The two scripts as state machines *)

NoParams == [K |-> NaN, T |-> NaN, a |-> NaN, tau0 |-> NaN]

\* no tune_* call is made on its own
NoCall == [fn |-> "", coeffs |-> <<>>, returned |-> <<>>]

\* command lines tried: four arguments drawn from these strings, and three
\* command lines with another number of arguments
ArgK == {"abc", "nan", "0", "2"}
ArgT == {"-1", "5", "inf"}
ArgA == {"0.9", "0.5"}
ArgTau0 == {"-1", "0", "0.3", "1"}
CommandLines ==
    {<<k, t, a, t0>> : k \in ArgK, t \in ArgT, a \in ArgA, t0 \in ArgTau0}
      \cup {<<>>, <<"2", "5", "0.5">>, <<"2", "5", "0.5", "1", "1">>}

\* a constructor whose sort state names no column of the initial order
initial_current_sort_unset == <<"", TRUE>>

\* TuningApp.__init__: the sort state before any selection
initial_current_sort == <<"Variante", TRUE>>

Init ==
    /\ prog \in {"tableTuning", "torfin"}
    /\ argv \in CommandLines
    /\ pc = "start"
    /\ params = NoParams
    /\ exit_in = ""
    /\ error = ""
    /\ catalog_read = FALSE
    /\ tune_calls = 0
    /\ local_results = <<>>
    /\ all_results = <<>>
    /\ current_sort = initial_current_sort
    /\ tabla = <<>>
    /\ printed = <<>>
    /\ resorts = 0
    /\ last_column = ""
    /\ fills = 0
    /\ call = NoCall

\* K, T, a, tau0 = parse_args()
ParseArgs ==
    /\ pc = "start"
    /\ \E r \in {parse_args(argv)} :
         IF r.status = "ok"
         THEN /\ pc' = "parsed"
              /\ params' = [K |-> r.K, T |-> r.T, a |-> r.a, tau0 |-> r.tau0]
              /\ UNCHANGED <<exit_in, error>>
         ELSE /\ pc' = "exit"
              /\ exit_in' = "parse_args"
              /\ error' = r.msg
              /\ UNCHANGED params
    /\ UNCHANGED <<prog, argv, call, catalog_read, tune_calls, local_results, all_results,
                   current_sort, tabla, printed, resorts, last_column, fills>>

\* TuningApp.on_mount: the list is built and sorted, the table filled
OnMount ==
    /\ prog = "tableTuning"
    /\ pc = "parsed"
    /\ \E r \in {construir_y_ordenar_resultados(params.K, params.T, params.a, params.tau0)} :
         /\ catalog_read' = TRUE
         /\ tune_calls' = r.calls
         /\ local_results' = r.local
         /\ IF r.status = "ok"
            THEN /\ pc' = "ui"
                 /\ all_results' = r.value
                 /\ tabla' = popular_tabla(r.value)
                 /\ fills' = fills + 1
                 /\ UNCHANGED <<exit_in, error>>
            ELSE /\ pc' = "exit"
                 /\ exit_in' = "construir_y_ordenar_resultados"
                 /\ error' = r.status
                 /\ UNCHANGED <<all_results, tabla, fills>>
    /\ UNCHANGED <<prog, argv, call, params, current_sort, printed, resorts, last_column>>

\* TuningApp.on_data_table_header_selected for a click on the header of columna
HeaderSelected(columna) ==
    /\ prog = "tableTuning"
    /\ pc = "ui"
    /\ columna \in SortableColumns => resorts < MaxResorts
    /\ \E r \in {on_data_table_header_selected(current_sort, all_results, columna)} :
         /\ current_sort' = r.current_sort
         /\ all_results' = r.all_results
         /\ tabla' = IF r.repopulated THEN popular_tabla(r.all_results) ELSE tabla
         /\ fills' = IF r.repopulated THEN fills + 1 ELSE fills
    /\ resorts' = IF columna \in SortableColumns THEN resorts + 1 ELSE resorts
    /\ last_column' = columna
    /\ UNCHANGED <<prog, argv, call, pc, params, exit_in, error, catalog_read, tune_calls,
                   local_results, printed>>

\* a main whose list ends after the Lopez records
main_results_without_rovira(K, T, a, tau0) ==
    Only({RunSteps(steps) :
            steps \in {usort_steps(K, T, a, tau0) \o mendez_steps(K, T, a, tau0)
                         \o lopez_steps(K, T, a, tau0)}})

\* steps 2) to 7) of torfin.main: the loops, coefficient tables and tune_*
\* functions of torfin.py are those of tableTuning.py, statement for statement
main_results(K, T, a, tau0) == build_results(K, T, a, tau0)

\* torfin.main after parse_args: the list is built, split and printed
TorfinMain ==
    /\ prog = "torfin"
    /\ pc = "parsed"
    /\ \E run \in {main_results(params.K, params.T, params.a, params.tau0)} :
         /\ catalog_read' = TRUE
         /\ tune_calls' = run.calls
         /\ local_results' = run.list
         /\ IF run.status = "ok"
            THEN /\ pc' = "done"
                 /\ all_results' = run.list
                 /\ printed' = <<display_pi_table(SelectSeq(run.list, IsPi)),
                                 display_pid_table(SelectSeq(run.list, IsPid))>>
                 /\ UNCHANGED <<exit_in, error>>
            ELSE /\ pc' = "exit"
                 /\ exit_in' = "main"
                 /\ error' = run.status
                 /\ UNCHANGED <<all_results, printed>>
    /\ UNCHANGED <<prog, argv, call, params, current_sort, tabla, resorts, last_column, fills>>

Next ==
    \/ ParseArgs
    \/ OnMount
    \/ \E columna \in Columns : HeaderSelected(columna)
    \/ TorfinMain

Spec == Init /\ [][Next]_vars

-----------------------------------------------------------------------------
(* construir_y_ordenar_resultados called directly with any arguments *)

CallK == {D(1, 1), D(2, 1)}
CallT == {D(1, 1), D(5, 1)}
CallA == {D(0, 1), D(25, 100), D(5, 10), D(75, 100), D(1, 1), D(9, 10)}
CallTau0 == {D(0, 1), D(3, 10), D(1, 1)}

InitCall ==
    /\ prog = "tableTuning"
    /\ argv = <<>>
    /\ pc = "call"
    /\ params \in [K : CallK, T : CallT, a : CallA, tau0 : CallTau0]
    /\ exit_in = ""
    /\ error = ""
    /\ catalog_read = FALSE
    /\ tune_calls = 0
    /\ local_results = <<>>
    /\ all_results = <<>>
    /\ current_sort = <<"Variante", TRUE>>
    /\ tabla = <<>>
    /\ printed = <<>>
    /\ resorts = 0
    /\ last_column = ""
    /\ fills = 0
    /\ call = NoCall

\* all_results = construir_y_ordenar_resultados(K, T, a, tau0)
CallConstruir ==
    /\ pc = "call"
    /\ \E r \in {construir_y_ordenar_resultados(params.K, params.T, params.a, params.tau0)} :
          /\ pc' = IF r.status = "ok" THEN "returned" ELSE "raised"
          /\ error' = IF r.status = "ok" THEN "" ELSE r.status
          /\ exit_in' = IF r.status = "ok" THEN "" ELSE "construir_y_ordenar_resultados"
          /\ catalog_read' = TRUE
          /\ tune_calls' = r.calls
          /\ local_results' = r.local
          /\ all_results' = r.value
    /\ UNCHANGED <<prog, argv, call, params, current_sort, tabla, printed, resorts,
                   last_column, fills>>

NextCall == CallConstruir

SpecCall == InitCall /\ [][NextCall]_vars


-----------------------------------------------------------------------------
(* construir_y_ordenar_resultados called a second time with the same arguments *)

\* a list that is kept from one invocation to the next
kept_all_results(previous) == previous

\* all_results = []: the list an invocation starts from is a new local list,
\* whatever an earlier invocation left
new_all_results(previous) == <<>>

\* the second call, in the process that made the first
CallAgain ==
    /\ pc \in {"returned", "raised"}
    /\ \E r \in {construir_y_ordenar_resultados(params.K, params.T, params.a, params.tau0)},
          start \in {new_all_results(local_results)} :
          /\ pc' = IF r.status = "ok" THEN "returned_again" ELSE "raised_again"
          /\ error' = IF r.status = "ok" THEN "" ELSE r.status
          /\ exit_in' = IF r.status = "ok" THEN "" ELSE "construir_y_ordenar_resultados"
          /\ catalog_read' = TRUE
          /\ tune_calls' = tune_calls + r.calls
          /\ local_results' = start \o r.local
          /\ all_results' = IF r.status = "ok" THEN start \o r.value ELSE r.value
    /\ UNCHANGED <<prog, argv, call, params, current_sort, tabla, printed, resorts,
                   last_column, fills>>

NextAgain == CallConstruir \/ CallAgain

SpecAgain == InitCall /\ [][NextAgain]_vars

-----------------------------------------------------------------------------
(* One call of a tune_* function that divides, or of tune_rovira_PID, with any tau0 *)

\* the functions with a division, and tune_rovira_PID, with the coefficient
\* sets the catalog has for them
TuneCalls ==
    {[fn |-> f, coeffs |-> get_usort_coeffs["servo"][c][i].coeffs, returned |-> <<>>] :
        f \in {"tune_usort1_servo", "tune_usort2_servo"}, c \in {"PI", "PID"}, i \in 1..2}
    \cup {[fn |-> "tune_mendez_ser_IAE", coeffs |-> iae_ser[i].coeffs, returned |-> <<>>] :
        i \in 1..Len(iae_ser)}
    \cup {[fn |-> "tune_mendez_ser_ITAE", coeffs |-> itae_ser[i].coeffs, returned |-> <<>>] :
        i \in 1..Len(itae_ser)}
    \cup {[fn |-> "tune_rovira_PI", coeffs |-> get_rovira_coeffs["PI"][crit], returned |-> <<>>] :
        crit \in {"IAE", "ITAE"}}
    \cup {[fn |-> "tune_rovira_PID", coeffs |-> get_rovira_coeffs["PID"][crit], returned |-> <<>>] :
        crit \in {"IAE", "ITAE"}}

\* the tau0 at which the denominator of the call is zero: -b3, -1, c / -d
ZeroOfDenominator(c) ==
    IF c.fn \in {"tune_usort1_servo", "tune_usort2_servo"}
    THEN [n |-> -c.coeffs.b3.n, d |-> c.coeffs.b3.d]
    ELSE IF c.fn \in {"tune_mendez_ser_IAE", "tune_mendez_ser_ITAE"}
    THEN D(-1, 1)
    ELSE Div(c.coeffs.c, [n |-> -c.coeffs.d.n, d |-> c.coeffs.d.d])

\* the values of tau0 a call is made with: the Rovira functions also with a
\* large one, tune_rovira_PID, which does not divide, with no zero of a denominator
TuneTau0(c) ==
    {D(0, 1), D(3, 10), D(1, 1)}
    \cup (IF c.fn = "tune_rovira_PID" THEN {} ELSE {ZeroOfDenominator(c)})
    \cup (IF c.fn \in {"tune_rovira_PI", "tune_rovira_PID"} THEN {D(10, 1)} ELSE {})

\* the call c.fn(...) with the arguments of the function's signature
tune(c, K, T, a, tau0) ==
    CASE c.fn = "tune_usort1_servo" -> tune_usort1_servo(a, tau0, K, T, c.coeffs)
      [] c.fn = "tune_usort2_servo" -> tune_usort2_servo(a, tau0, K, T, c.coeffs)
      [] c.fn = "tune_mendez_ser_IAE" -> tune_mendez_ser_IAE(a, tau0, K, T, c.coeffs)
      [] c.fn = "tune_mendez_ser_ITAE" -> tune_mendez_ser_ITAE(a, tau0, K, T, c.coeffs)
      [] c.fn = "tune_rovira_PI" -> tune_rovira_PI(tau0, K, T, c.coeffs)
      [] c.fn = "tune_rovira_PID" -> tune_rovira_PID(tau0, K, T, c.coeffs)

InitTune ==
    /\ prog = "tableTuning"
    /\ argv = <<>>
    /\ pc = "tune"
    /\ call \in TuneCalls
    /\ params \in {[K |-> k, T |-> t, a |-> D(1, 2), tau0 |-> t0] :
                     k \in CallK, t \in CallT, t0 \in TuneTau0(call)}
    /\ exit_in = ""
    /\ error = ""
    /\ catalog_read = TRUE
    /\ tune_calls = 0
    /\ local_results = <<>>
    /\ all_results = <<>>
    /\ current_sort = <<"Variante", TRUE>>
    /\ tabla = <<>>
    /\ printed = <<>>
    /\ resorts = 0
    /\ last_column = ""
    /\ fills = 0

\* Kp, Ti, Td, beta = tune_*(...): the tuple is returned, or the call raises
Tune ==
    /\ pc = "tune"
    /\ \E r \in {tune(call, params.K, params.T, params.a, params.tau0)} :
          IF \E i \in 1..4 : IsRaised(r[i])
          THEN /\ pc' = "raised"
               /\ exit_in' = call.fn
               /\ error' = "ZeroDivisionError"
               /\ UNCHANGED call
          ELSE /\ pc' = "tuned"
               /\ call' = [call EXCEPT !.returned = r]
               /\ UNCHANGED <<exit_in, error>>
    /\ tune_calls' = tune_calls + 1
    /\ UNCHANGED <<prog, argv, params, catalog_read, local_results, all_results,
                   current_sort, tabla, printed, resorts, last_column, fills>>

NextTune == Tune

SpecTune == InitTune /\ [][NextTune]_vars
-----------------------------------------------------------------------------
(* Properties *)

\* the position of record r in a list without repeated records
Pos(list, r) == CHOOSE i \in 1..Len(list) : list[i] = r

\* K > 0, T > 0, a in {0, 0.25, 0.5, 0.75, 1.0}, tau0 >= 0
ValidValues(K, T, a, tau0) ==
    Lt(Zero, K) /\ Lt(Zero, T) /\ InAllowed(a) /\ Le(Zero, tau0)

ValidParams == ValidValues(params.K, params.T, params.a, params.tau0)

\* the tune_* calls of the aggregation that raise for the arguments of the run
RaisingCalls ==
    Only({{i \in 1..Len(steps) : steps[i].kind = "call" /\ RecordRaised(steps[i].rec)} :
            steps \in {all_steps(params.K, params.T, params.a, params.tau0)}})

RecordCount == 16 + 4 + 9 + 4

\* C1: for every valid input, tau0 = 0 included, construir_y_ordenar_resultados
\* returns a list, and the list has the fixed number of 33 records.
C1_FixedRecordCount ==
    (pc # "call" /\ ValidParams) => (pc = "returned" /\ Len(all_results) = RecordCount)

\* C2: when tune_* calls raise on 0 ** (negative exponent), only their records
\* are skipped: the aggregation goes on and returns the records of all other calls.
C2_LocalRecovery ==
    (pc # "call" /\ ValidParams /\ RaisingCalls # {})
        => (pc = "returned" /\ Len(all_results) = RecordCount - Cardinality(RaisingCalls))

\* the command line gives four numbers with K > 0, T > 0, a allowed, tau0 >= 0
ValidCommandLine ==
    /\ Len(argv) = 4
    /\ \A i \in 1..4 : ~IsRaised(Float(argv[i]))
    /\ ValidValues(Float(argv[1]), Float(argv[2]), Float(argv[3]), Float(argv[4]))

\* C3: a run whose input violates K > 0, T > 0, a allowed or tau0 >= 0 ends in
\* parse_args, before any coefficient table is read and any tune_* call is made,
\* and no record is produced or displayed.
C3_InvalidInputRejected ==
    (pc \in {"ui", "done", "exit"} /\ ~ValidCommandLine)
        => /\ pc = "exit" /\ exit_in = "parse_args"
           /\ ~catalog_read /\ tune_calls = 0
           /\ all_results = <<>> /\ tabla = <<>> /\ printed = <<>>

\* C4: called with an a that has no Mendez & Rimolo row, the aggregation ends
\* with an error and returns no list: no uSORT record computed before is
\* returned or displayed.
C4_NoMendezRowFails ==
    (pc # "call" /\ ~(HasRow(iae_reg, params.a) /\ HasRow(iae_ser, params.a)))
        => (pc = "raised" /\ error # "" /\ all_results = <<>> /\ tabla = <<>> /\ printed = <<>>)

\* the 16 uSORT records were computed, then the process exited at the Mendez step
C4_Witness ==
    /\ pc = "raised" /\ error = "SystemExit"
    /\ ~HasRow(iae_reg, params.a)
    /\ Len(local_results) = 16 /\ tune_calls = 16
    /\ all_results = <<>>

\* a step that re-sorts the list by the column it was last sorted by from the header
SameKeyAgain ==
    resorts >= 1 /\ resorts' = resorts + 1 /\ current_sort'[1] = current_sort[1]

\* the records x and y have equal values of the key of columna
SameKey(x, y, columna) ==
    IF columna = "Ms/Criterio"
    THEN header_ms_a_float(x.MsCriterio) = header_ms_a_float(y.MsCriterio)
    ELSE Field(x, columna) = Field(y, columna)

\* C5 as stated: selecting the same key again leaves the list in the exact
\* reverse of the order of the first selection, ties included.
C5_ExactReverse ==
    [][SameKeyAgain => all_results' = Reverse(all_results)]_vars

\* C5: selecting the same key again inverts the order of every two records
\* whose key values differ and keeps the order of every two records whose key
\* values are equal.
C5_ToggleReversesKeyGroups ==
    [][SameKeyAgain =>
         \A i, j \in 1..Len(all_results) :
            i < j =>
              IF SameKey(all_results[i], all_results[j], current_sort[1])
              THEN Pos(all_results', all_results[i]) < Pos(all_results', all_results[j])
              ELSE Pos(all_results', all_results[i]) > Pos(all_results', all_results[j])]_vars

\* Modo selected twice: the Servo records first, several of them
C5_Witness ==
    /\ resorts = 2 /\ current_sort = <<"Modo", FALSE>>
    /\ Len(all_results) = RecordCount
    /\ all_results[1].Modo = "Servo" /\ all_results[2].Modo = "Servo"
    /\ all_results[RecordCount].Modo = "Regulador"

\* the criterion parses as a number
IsNumber(valor) == ~IsRaised(Float(valor))

\* C6: after an ascending sort by Ms/Criterio every record with a numeric
\* criterion comes before every record with a label, and the numeric
\* criteria are in non-decreasing order.
C6_NumericBeforeLabels ==
    current_sort = <<"Ms/Criterio", TRUE>> =>
        \A i, j \in 1..Len(all_results) :
            i < j =>
              /\ IsNumber(all_results[j].MsCriterio) => IsNumber(all_results[i].MsCriterio)
              /\ (IsNumber(all_results[i].MsCriterio) /\ IsNumber(all_results[j].MsCriterio))
                    => Le(Float(all_results[i].MsCriterio), Float(all_results[j].MsCriterio))

C6_Witness ==
    /\ current_sort = <<"Ms/Criterio", TRUE>>
    /\ Len(all_results) = RecordCount
    /\ all_results[1].MsCriterio = "1.6"
    /\ \E i \in 1..RecordCount : all_results[i].MsCriterio = "2.0"
    /\ all_results[RecordCount].MsCriterio \in {"ISE", "IAE", "ITAE"}

\* C7: a selection of the active key flips the direction, a selection of
\* another key sets it to ascending.
C7_DirectionRule ==
    [][resorts' = resorts + 1 =>
         current_sort'[2] = (IF current_sort'[1] = current_sort[1]
                             THEN ~current_sort[2] ELSE TRUE)]_vars

\* Variante is ascending again after two re-sorts
C7_Witness ==
    /\ resorts = 2 /\ current_sort = <<"Variante", TRUE>>
    /\ Len(all_results) = RecordCount

\* C8: a re-sort, ascending or descending, keeps the relative order of every
\* two records with equal values of the selected key.
C8_ResortIsStable ==
    [][resorts' = resorts + 1 =>
         \A i, j \in 1..Len(all_results) :
            (i < j /\ SameKey(all_results[i], all_results[j], current_sort'[1]))
                => Pos(all_results', all_results[i]) < Pos(all_results', all_results[j])]_vars

\* a descending re-sort of a list with several records per Metodo
C8_Witness ==
    /\ resorts = 2 /\ current_sort = <<"Método", FALSE>>
    /\ Len(all_results) = RecordCount
    /\ all_results[1].Metodo = "uSORT2" /\ all_results[2].Metodo = "uSORT2"

\* x <= y on (Variante, Metodo, Modo, Ms/Criterio as a number or +inf)
TupleLe(x, y) ==
    \/ StrLt(x.Variante, y.Variante)
    \/ /\ x.Variante = y.Variante
       /\ \/ StrLt(x.Metodo, y.Metodo)
          \/ /\ x.Metodo = y.Metodo
             /\ \/ StrLt(x.Modo, y.Modo)
                \/ /\ x.Modo = y.Modo
                   /\ Le(ms_a_float(x.MsCriterio), ms_a_float(y.MsCriterio))

\* C9: in the list construir_y_ordenar_resultados returns, every record's
\* (Variante, Metodo, Modo, numeric Ms/Criterio) is <= that of the next record.
C9_InitialOrder ==
    pc = "returned" =>
        \A i \in 1..(Len(all_results) - 1) : TupleLe(all_results[i], all_results[i + 1])

\* two adjacent records differ in Ms/Criterio only
C9_Witness ==
    /\ pc = "returned" /\ Len(all_results) = RecordCount
    /\ \E i \in 1..(RecordCount - 1) :
          /\ all_results[i].Variante = all_results[i + 1].Variante
          /\ all_results[i].Metodo = all_results[i + 1].Metodo
          /\ all_results[i].Modo = all_results[i + 1].Modo
          /\ all_results[i].MsCriterio = "1.6" /\ all_results[i + 1].MsCriterio = "2.0"

\* the list for the gain 2K and the other arguments of the run
Doubled ==
    construir_y_ordenar_resultados(Mul(Two, params.K), params.T, params.a, params.tau0).value

\* C10: with the gain 2K instead of K every record has exactly half the Kp and
\* the same Ti, Td and beta.
C10_KpHalvedByDoubleK ==
    pc = "returned" =>
        \E doubled \in {Doubled} :
            /\ Len(doubled) = Len(all_results)
            /\ \A i \in 1..Len(all_results) :
                  /\ doubled[i].Variante = all_results[i].Variante
                  /\ doubled[i].Metodo = all_results[i].Metodo
                  /\ doubled[i].Modo = all_results[i].Modo
                  /\ doubled[i].MsCriterio = all_results[i].MsCriterio
                  /\ Eq(Mul(Two, doubled[i].Kp), all_results[i].Kp)
                  /\ doubled[i].Ti = all_results[i].Ti
                  /\ doubled[i].Td = all_results[i].Td
                  /\ doubled[i].beta = all_results[i].beta

\* a returned list with a Lopez P record and a record with a numeric beta
C10_Witness ==
    /\ pc = "returned" /\ Len(all_results) = RecordCount
    /\ \E i \in 1..RecordCount :
          all_results[i].Variante = "P (IAE)" /\ Lt(Zero, all_results[i].Kp)
    /\ \E i \in 1..RecordCount :
          all_results[i].beta # Dash /\ Lt(Zero, all_results[i].Kp)

\* the list for the time constant 2T and the other arguments of the run
DoubledT ==
    construir_y_ordenar_resultados(params.K, Mul(Two, params.T), params.a, params.tau0).value

\* C11: with the time constant 2T instead of T every record has exactly twice
\* the Ti and twice the Td (the Lopez P records keep Ti = Td = 0) and the same
\* Kp and beta.
C11_TimesDoubledByDoubleT ==
    pc = "returned" =>
        \E doubled \in {DoubledT} :
            /\ Len(doubled) = Len(all_results)
            /\ \A i \in 1..Len(all_results) :
                  /\ doubled[i].Variante = all_results[i].Variante
                  /\ doubled[i].Metodo = all_results[i].Metodo
                  /\ doubled[i].Modo = all_results[i].Modo
                  /\ doubled[i].MsCriterio = all_results[i].MsCriterio
                  /\ doubled[i].Kp = all_results[i].Kp
                  /\ Eq(doubled[i].Ti, Mul(Two, all_results[i].Ti))
                  /\ Eq(doubled[i].Td, Mul(Two, all_results[i].Td))
                  /\ doubled[i].beta = all_results[i].beta
                  /\ (all_results[i].Metodo = "López et al." /\ all_results[i].Modo = "Regulador"
                        /\ StartsWith(all_results[i].Variante, "P (")) =>
                        doubled[i].Ti = Zero /\ doubled[i].Td = Zero

\* a returned list with records whose Ti and Td are not zero, a uSORT servo
\* record among them, and a Lopez P record
C11_Witness ==
    /\ pc = "returned" /\ Len(all_results) = RecordCount
    /\ \E i \in 1..RecordCount :
          /\ all_results[i].Metodo = "uSORT1" /\ all_results[i].Modo = "Servo"
          /\ Lt(Zero, all_results[i].Ti) /\ Lt(Zero, all_results[i].Td)
    /\ \E i \in 1..RecordCount :
          /\ all_results[i].Variante = "PID (ITAE)" /\ all_results[i].Metodo = "López et al."
          /\ Lt(Zero, all_results[i].Td)
    /\ \E i \in 1..RecordCount :
          all_results[i].Variante = "P (ISE)" /\ all_results[i].Ti = Zero

\* the records of the returned list with the given method, variant and mode
Matching(metodo, variante, modo) ==
    {i \in 1..Len(all_results) :
        /\ all_results[i].Metodo = metodo
        /\ all_results[i].Variante = variante
        /\ all_results[i].Modo = modo}

\* the Ms/Criterio labels of a set of records: one per record when they differ
Labels(S) == {all_results[i].MsCriterio : i \in S}

\* C12: the returned list holds exactly the combinations of the catalog:
\* Mendez & Rimolo PI in both modes for IAE and ITAE, Lopez P, PI and PID in
\* Regulador for ISE, IAE and ITAE, Rovira PI and PID in Servo for IAE and ITAE,
\* uSORT1 and uSORT2 each PI and PID in both modes for two Ms values.
C12_CatalogCombinations ==
    pc = "returned" =>
        /\ Len(all_results) = 4 + 9 + 4 + 8 + 8
        /\ \A crit \in {"IAE", "ITAE"}, modo \in {"Regulador", "Servo"} :
              \E S \in {Matching("Méndez & Rímolo", crit \o " (PI)", modo)} :
                  Cardinality(S) = 1 /\ Labels(S) = {crit}
        /\ \A ctrl \in {"P", "PI", "PID"}, crit \in {"ISE", "IAE", "ITAE"} :
              \E S \in {Matching("López et al.", ctrl \o " (" \o crit \o ")", "Regulador")} :
                  Cardinality(S) = 1 /\ Labels(S) = {crit}
        /\ \A ctrl \in {"PI", "PID"}, crit \in {"IAE", "ITAE"} :
              \E S \in {Matching("Rovira et al.", ctrl \o " (" \o crit \o ")", "Servo")} :
                  Cardinality(S) = 1 /\ Labels(S) = {crit}
        /\ \A ctrl \in {"PI", "PID"}, modo \in {"Regulador", "Servo"} :
              /\ \E S \in {Matching("uSORT1", ctrl \o " 1GdL", modo)} :
                    Cardinality(S) = 2 /\ Cardinality(Labels(S)) = 2
              /\ \E S \in {Matching("uSORT2", ctrl \o " 2GdL", modo)} :
                    Cardinality(S) = 2 /\ Cardinality(Labels(S)) = 2

\* a returned list with records of all four methods
C12_Witness ==
    /\ pc = "returned"
    /\ \A metodo \in {"Méndez & Rímolo", "López et al.", "Rovira et al.", "uSORT1", "uSORT2"} :
          \E i \in 1..Len(all_results) : all_results[i].Metodo = metodo

\* the record is a two-degree-of-freedom variant
TwoDoF(x) == x.Metodo = "uSORT2" /\ x.Variante \in {"PI 2GdL", "PID 2GdL"}

\* the catalog coefficients of a uSORT record: the entry of its mode and
\* controller whose Ms prints as the record's Ms/Criterio
UsortCoeffs(x) ==
    LET modo == IF x.Modo = "Regulador" THEN "regulador" ELSE "servo"
        controlador == IF StartsWith(x.Variante, "PID") THEN "PID" ELSE "PI"
        items == get_usort_coeffs[modo][controlador]
    IN items[CHOOSE i \in 1..Len(items) : Fmt(items[i].Ms, 1) = x.MsCriterio].coeffs

\* C13: in every record beta is a number exactly when the record is a
\* two-degree-of-freedom variant (uSORT2, 'PI 2GdL' or 'PID 2GdL'), and then it
\* is d0 + d1 * tau0^d2; in every other record beta is the marker '-'.
C13_BetaOnlyForTwoDoF ==
    pc = "returned" =>
        \A i \in 1..Len(all_results) :
            \E x \in {all_results[i]} :
                IF TwoDoF(x)
                THEN /\ x.beta # Dash /\ IsFinite(x.beta)
                     /\ \E c \in {UsortCoeffs(x)} :
                           x.beta = Add(c.d0, Mul(c.d1, Pow(params.tau0, c.d2)))
                ELSE /\ x.beta = Dash
                     /\ x.Metodo \in {"uSORT1", "Méndez & Rímolo", "López et al.", "Rovira et al."}

\* a returned list with two-degree-of-freedom records in both modes whose beta
\* is a number, and a uSORT1 record without beta
C13_Witness ==
    /\ pc = "returned"
    /\ \A modo \in {"Regulador", "Servo"} :
          \E i \in 1..Len(all_results) :
              /\ TwoDoF(all_results[i]) /\ all_results[i].Modo = modo
              /\ IsFinite(all_results[i].beta)
    /\ \E i \in 1..Len(all_results) :
          all_results[i].Metodo = "uSORT1" /\ all_results[i].beta = Dash

\* the record is a Lopez record of controller type P
IsLopezP(x) ==
    x.Metodo = "López et al." /\ x.Variante \in {"P (ISE)", "P (IAE)", "P (ITAE)"}

\* C14: for every valid input, every Lopez record of controller type P has
\* Td = 0, beta = '-' and Ti = 0.
C14_LopezPHasNoTimes ==
    (pc = "returned" /\ ValidParams) =>
        \A i \in 1..Len(all_results) :
            IsLopezP(all_results[i]) =>
                /\ all_results[i].Td = Zero
                /\ all_results[i].beta = Dash
                /\ all_results[i].Ti = Zero

\* a returned list for a valid input with the three Lopez P records
C14_Witness ==
    /\ pc = "returned" /\ ValidParams
    /\ Cardinality({i \in 1..Len(all_results) :
                      IsLopezP(all_results[i]) /\ Lt(Zero, all_results[i].Kp)}) = 3

\* the records uSORT1 / 'PI 1GdL' / Regulador / '2.0' of the returned list
Usort1RegPI20 ==
    {i \in Matching("uSORT1", "PI 1GdL", "Regulador") : all_results[i].MsCriterio = "2.0"}

\* C16: for every valid input with tau0 > 0 the list is returned and has
\* exactly one record uSORT1 / 'PI 1GdL' / Regulador / '2.0', whose Kp is
\* (0.265 + 0.603 * tau0^(-0.971)) / K.
C16_Usort1RegPIKp ==
    (pc # "call" /\ ValidParams /\ Lt(Zero, params.tau0)) =>
        /\ pc = "returned"
        /\ Cardinality(Usort1RegPI20) = 1
        /\ \A i \in Usort1RegPI20 :
              all_results[i].Kp =
                  Div(Add(D(265, 1000), Mul(D(603, 1000), Pow(params.tau0, D(-971, 1000)))),
                      params.K)

\* the call K = 2.0, T = 5.0, a = 0.5, tau0 = 0.3 has returned and its record
\* has Kp = (0.265 + 0.603 * 0.3^(-0.971)) / 2.0
C16_Witness ==
    /\ pc = "returned"
    /\ params = [K |-> D(2, 1), T |-> D(5, 1), a |-> D(1, 2), tau0 |-> D(3, 10)]
    /\ \E i \in Usort1RegPI20 :
          all_results[i].Kp = Div(Add(D(265, 1000), Mul(D(603, 1000), Pow(D(3, 10), D(-971, 1000)))), Two)

\* the list for another a and the other arguments of the run
WithA(a) == construir_y_ordenar_resultados(params.K, params.T, a, params.tau0).value

\* the elements of a list
Range(list) == {list[i] : i \in 1..Len(list)}

\* C18: only the Mendez & Rimolo records depend on a: for two valid inputs
\* that differ only in a, every uSORT1, uSORT2, Lopez and Rovira record of one
\* list is in the other list with the same Kp, Ti, Td and beta.
C18_OnlyMendezDependsOnA ==
    (pc = "returned" /\ ValidParams) =>
        \A a \in allowed_a :
            \E other \in {Range(WithA(a))} :
                \A i \in 1..Len(all_results) :
                    all_results[i].Metodo # "Méndez & Rímolo" =>
                        \E y \in other :
                            /\ y.Metodo = all_results[i].Metodo
                            /\ y.Variante = all_results[i].Variante
                            /\ y.Modo = all_results[i].Modo
                            /\ y.MsCriterio = all_results[i].MsCriterio
                            /\ y.Kp = all_results[i].Kp
                            /\ y.Ti = all_results[i].Ti
                            /\ y.Td = all_results[i].Td
                            /\ y.beta = all_results[i].beta

\* a returned list for a valid input whose Mendez & Rimolo records change with
\* a, beside records of the other four methods
C18_Witness ==
    /\ pc = "returned" /\ ValidParams
    /\ \E a \in allowed_a :
          \E other \in {Range(WithA(a))} :
              \E i \in 1..Len(all_results) :
                  all_results[i].Metodo = "Méndez & Rímolo" /\ all_results[i] \notin other
    /\ \A metodo \in {"uSORT1", "uSORT2", "López et al.", "Rovira et al."} :
          \E i \in 1..Len(all_results) : all_results[i].Metodo = metodo

\* C19: display_pi_table and display_pid_table print their rows by 'Metodo'
\* in descending alphabetical order: of any two rows of a printed table the
\* earlier one has the greater or the same Metodo.
C19_PrintedByMetodoDescending ==
    pc = "done" =>
        \A t \in 1..Len(printed) :
            \A i, j \in 1..Len(printed[t]) :
                i < j => ~StrLt(printed[t][i][1], printed[t][j][1])

\* C20: selecting the header of Kp, Ti, Td or beta changes nothing: the order
\* of all_results and the sort state stay as they are and the table is not
\* filled again.
C20_OtherHeaderChangesNothing ==
    [][(pc = "ui" /\ last_column' \in Columns \ SortableColumns)
          => /\ all_results' = all_results
             /\ current_sort' = current_sort
             /\ tabla' = tabla
             /\ fills' = fills]_vars

\* the header of beta was selected after two re-sorts, the last one by Modo
\* descending: the table was filled on mount and by the two re-sorts only
C20_Witness ==
    /\ pc = "ui"
    /\ last_column = "β"
    /\ resorts = 2 /\ current_sort = <<"Modo", FALSE>>
    /\ fills = 3

Denominator ==
    IF call.fn \in {"tune_usort1_servo", "tune_usort2_servo"}
    THEN Add(call.coeffs.b3, params.tau0)
    ELSE IF call.fn \in {"tune_mendez_ser_IAE", "tune_mendez_ser_ITAE"}
    THEN Add(One, params.tau0)
    ELSE Add(call.coeffs.c, Mul(call.coeffs.d, params.tau0))

IsPermutation(s, t) ==
    /\ Len(s) = Len(t)
    /\ \A i \in 1..Len(t) :
          Cardinality({j \in 1..Len(s) : s[j] = t[i]}) = Cardinality({j \in 1..Len(t) : t[j] = t[i]})

\* C21: after any sequence of header selections all_results is a permutation
\* of the list construir_y_ordenar_resultados returned at mount: the same 33
\* records with their eight fields, none added, dropped or duplicated.
C21_ResortsPermuteTheList ==
    pc = "ui" =>
        /\ Len(all_results) = RecordCount
        /\ IsPermutation(all_results, local_results)
        /\ resorts = 0 =>
              all_results = construir_y_ordenar_resultados(params.K, params.T, params.a,
                                                            params.tau0).value

\* two re-sorts were made and the list is in another order than the one built
C21_Witness ==
    /\ pc = "ui" /\ resorts = 2
    /\ current_sort = <<"Ms/Criterio", FALSE>>
    /\ \E i \in 1..Len(all_results) : all_results[i] # local_results[i]
    /\ IsPermutation(all_results, local_results)

\* C22: a Rovira PI tuple has Td = 0 and, where c + d * tau0 is not zero,
\* Ti = T / (c + d * tau0); a Rovira PID tuple has Ti = (c + d * tau0) * T and
\* Td = (e + f * tau0) * T, negative values included, for every tau0 >= 0.
C22_RoviraRules ==
    (pc = "tuned" /\ call.fn \in {"tune_rovira_PI", "tune_rovira_PID"} /\ Le(Zero, params.tau0)) =>
        \E prm \in {call.coeffs}, lin \in {Add(call.coeffs.c, Mul(call.coeffs.d, params.tau0))} :
            /\ call.fn = "tune_rovira_PI" =>
                  /\ call.returned[3] = Zero
                  /\ lin # Zero => call.returned[2] = Div(params.T, lin)
            /\ call.fn = "tune_rovira_PID" =>
                  /\ call.returned[2] = Mul(lin, params.T)
                  /\ call.returned[3] = Mul(Add(prm.e, Mul(prm.f, params.tau0)), params.T)

\* tune_rovira_PID has returned a negative Ti for tau0 = 10
C22_Witness ==
    /\ pc = "tuned"
    /\ call.fn = "tune_rovira_PID"
    /\ params.tau0 = D(10, 1)
    /\ Lt(call.returned[2], Zero)
    /\ Lt(Zero, call.returned[3])

\* the record is a uSORT1 or uSORT2 record
IsUsort(x) == x.Metodo \in {"uSORT1", "uSORT2"}

\* C23: every uSORT Servo record has
\* Ti = T * (b0 + b1 * tau0 + b2 * tau0^2) / (b3 + tau0) with the b0..b3 of the
\* catalog row of its controller and Ms; every uSORT Regulador record has
\* Ti = T * (b0 + b1 * tau0^b2), from a row that has no b3.
C23_UsortTi ==
    pc = "returned" =>
        \A i \in 1..Len(all_results) :
            IsUsort(all_results[i]) =>
                \E x \in {all_results[i]}, c \in {UsortCoeffs(all_results[i])}, t0 \in {params.tau0} :
                    IF x.Modo = "Servo"
                    THEN x.Ti = Mul(params.T,
                                    Div(Add(Add(c.b0, Mul(c.b1, t0)), Mul(c.b2, Mul(t0, t0))),
                                        Add(c.b3, t0)))
                    ELSE /\ x.Modo = "Regulador"
                         /\ x.Ti = Mul(params.T, Add(c.b0, Mul(c.b1, Pow(t0, c.b2))))
                         /\ "b3" \notin DOMAIN c

\* a returned list for tau0 = 0.3 with the eight uSORT Servo and the eight
\* uSORT Regulador records, the Servo ones with Ti > 0
C23_Witness ==
    /\ pc = "returned" /\ params.tau0 = D(3, 10)
    /\ Cardinality({i \in 1..Len(all_results) :
                      /\ IsUsort(all_results[i]) /\ all_results[i].Modo = "Servo"
                      /\ Lt(Zero, all_results[i].Ti)}) = 8
    /\ Cardinality({i \in 1..Len(all_results) :
                      IsUsort(all_results[i]) /\ all_results[i].Modo = "Regulador"}) = 8

\* the record is of a controller without derivative action
NoDerivative(x) ==
    \/ IsUsort(x) /\ x.Variante \in {"PI 1GdL", "PI 2GdL"}
    \/ x.Metodo = "Méndez & Rímolo"
    \/ x.Metodo = "López et al." /\ (StartsWith(x.Variante, "P (") \/ StartsWith(x.Variante, "PI ("))
    \/ x.Metodo = "Rovira et al." /\ StartsWith(x.Variante, "PI (")

\* C24: for every valid input with tau0 > 0, every record of a controller
\* without derivative action has Td = 0: the uSORT 'PI' records, whose c0, c1,
\* c2 are 0, all Mendez & Rimolo records, the Lopez P and PI records and the
\* Rovira PI records.
C24_NoDerivativeHasZeroTd ==
    (pc = "ui" /\ ValidCommandLine /\ Lt(Zero, params.tau0)) =>
        \A i \in 1..Len(all_results) :
            NoDerivative(all_results[i]) => all_results[i].Td = Zero

\* C25: in every state after mount the list is ordered by the column of
\* current_sort: non-decreasing in that column's key when the flag is True,
\* non-increasing when it is False (Ms/Criterio compared as a number or
\* +infinity, the other columns as strings).
C25_OrderedByCurrentSort ==
    pc = "ui" =>
        \A i \in 1..(Len(all_results) - 1) :
            \E k1 \in {keyfunc(all_results[i], current_sort[1])},
               k2 \in {keyfunc(all_results[i + 1], current_sort[1])} :
                IF current_sort[2] THEN ~KeyLt(k2, k1) ELSE ~KeyLt(k1, k2)

\* a list sorted descending by Ms/Criterio after a first sort by another column:
\* the labels first, the smallest Ms last
C25_Witness ==
    /\ pc = "ui" /\ resorts = 2 /\ current_sort = <<"Ms/Criterio", FALSE>>
    /\ Len(all_results) = RecordCount
    /\ ~IsNumber(all_results[1].MsCriterio)
    /\ all_results[RecordCount].MsCriterio = "1.6"
    /\ \E i \in 1..RecordCount : all_results[i].MsCriterio = "2.0"

\* C26: the sort state after mount is (Variante, ascending), so the first
\* selection of Variante sorts descending by Variante, and a first selection of
\* Metodo, Modo or Ms/Criterio sorts ascending by that column.
C26_FirstSelection ==
    [][/\ (pc' = "ui" /\ resorts' = 0) => current_sort' = <<"Variante", TRUE>>
       /\ (resorts = 0 /\ resorts' = 1) =>
             /\ current_sort' = <<last_column', last_column' # "Variante">>
             /\ \A i \in 1..(Len(all_results') - 1) :
                   \E k1 \in {keyfunc(all_results'[i], last_column')},
                      k2 \in {keyfunc(all_results'[i + 1], last_column')} :
                       IF last_column' = "Variante" THEN ~KeyLt(k1, k2) ELSE ~KeyLt(k2, k1)]_vars

\* the first selection was of Variante: the list starts with the greatest Variante
C26_Witness ==
    /\ pc = "ui" /\ resorts = 1 /\ current_sort = <<"Variante", FALSE>>
    /\ Len(all_results) = RecordCount
    /\ all_results[1].Variante = "PID 2GdL"
    /\ all_results[RecordCount].Variante = "IAE (PI)"

\* the uSORT2 records that pair with the uSORT1 record x: same mode, same
\* controller and same Ms
TwinsOf(x) ==
    {j \in 1..Len(all_results) :
        /\ all_results[j].Metodo = "uSORT2"
        /\ all_results[j].Modo = x.Modo
        /\ all_results[j].MsCriterio = x.MsCriterio
        /\ StartsWith(all_results[j].Variante, "PID") = StartsWith(x.Variante, "PID")}

\* C27: for each (mode, controller, Ms) the uSORT1 record and the uSORT2
\* record are computed from the same catalog row and have the same Kp, Ti and
\* Td: they differ in Metodo, Variante and beta only.
C27_UsortTwins ==
    pc = "returned" =>
        /\ Cardinality({i \in 1..Len(all_results) : all_results[i].Metodo = "uSORT1"})
             = Cardinality({i \in 1..Len(all_results) : all_results[i].Metodo = "uSORT2"})
        /\ \A i \in 1..Len(all_results) :
              all_results[i].Metodo = "uSORT1" =>
                  \E x \in {all_results[i]}, S \in {TwinsOf(all_results[i])} :
                      /\ Cardinality(S) = 1
                      /\ \A j \in S :
                            \E y \in {all_results[j]} :
                                /\ UsortCoeffs(y) = UsortCoeffs(x)
                                /\ y.Kp = x.Kp /\ y.Ti = x.Ti /\ y.Td = x.Td
                                /\ IsFinite(x.Kp) /\ IsFinite(x.Ti) /\ IsFinite(x.Td)
                                /\ y.Variante # x.Variante
                                /\ y.beta # x.beta

\* uSORT1 and uSORT2 records of both modes with a gain that depends on K
C27_Witness ==
    /\ pc = "returned" /\ params.K = Two
    /\ \A modo \in {"Regulador", "Servo"} :
          \E i, j \in 1..Len(all_results) :
              /\ all_results[i].Metodo = "uSORT1" /\ all_results[i].Modo = modo
              /\ all_results[i].Variante = "PID 1GdL"
              /\ j \in TwinsOf(all_results[i])
              /\ Lt(Zero, all_results[j].Kp) /\ Lt(Zero, all_results[j].Td)

\* the list sorted as construir_y_ordenar_resultados sorts it
InitialSort(list) == list_sort(list, [i \in 1..Len(list) |-> initial_key(list[i])], FALSE)

\* C28: no two records have the same (Variante, Metodo, Modo, Ms/Criterio), so
\* the initial sort has no ties: the returned order is the same when the
\* records are enumerated in another order.
C28_NoTies ==
    pc = "returned" =>
        /\ \A i, j \in 1..Len(all_results) :
              i < j =>
                  /\ <<all_results[i].Variante, all_results[i].Metodo,
                       all_results[i].Modo, all_results[i].MsCriterio>>
                       # <<all_results[j].Variante, all_results[j].Metodo,
                           all_results[j].Modo, all_results[j].MsCriterio>>
                  /\ KeyLt(initial_key(all_results[i]), initial_key(all_results[j]))
        /\ \E run \in {build_results(params.K, params.T, params.a, params.tau0)} :
              /\ run.status = "ok"
              /\ run.list # all_results
              /\ InitialSort(Reverse(run.list)) = all_results

\* a returned list with records that differ in Ms/Criterio only, and with
\* records that differ in Metodo only
C28_Witness ==
    /\ pc = "returned" /\ Len(all_results) = RecordCount
    /\ \E i \in 1..(RecordCount - 1) :
          /\ initial_key_no_ms(all_results[i]) = initial_key_no_ms(all_results[i + 1])
          /\ all_results[i].MsCriterio = "1.6" /\ all_results[i + 1].MsCriterio = "2.0"
    /\ \E i \in 1..(RecordCount - 1) :
          /\ all_results[i].Variante = "PI (IAE)" /\ all_results[i + 1].Variante = "PI (IAE)"
          /\ all_results[i].Metodo # all_results[i + 1].Metodo

\* the functions that divide by b3 + tau0 or by 1 + tau0
ServoDividers == {"tune_usort1_servo", "tune_usort2_servo", "tune_mendez_ser_IAE", "tune_mendez_ser_ITAE"}

\* the numerator of the division the function of the call makes
Numerator ==
    IF call.fn \in {"tune_usort1_servo", "tune_usort2_servo"}
    THEN Add(Add(call.coeffs.b0, Mul(call.coeffs.b1, params.tau0)),
             Mul(call.coeffs.b2, Mul(params.tau0, params.tau0)))
    ELSE IF call.fn \in {"tune_mendez_ser_IAE", "tune_mendez_ser_ITAE"}
    THEN Add(Mul(call.coeffs.b0, params.tau0), Mul(call.coeffs.b1, Pow(params.tau0, call.coeffs.b2)))
    ELSE One

\* C29: for every tau0 >= 0 and every catalog row the denominators b3 + tau0
\* (uSORT Servo) and 1 + tau0 (Mendez & Rimolo Servo) are strictly positive and
\* Ti is the quotient, not the fallback; a denominator that is zero for a
\* tau0 >= 0 is that of tune_rovira_PI, c + d * tau0 with d < 0, at tau0 = c / |d|.
C29_OnlyRoviraDenominatorVanishes ==
    (call.fn # "tune_rovira_PID" /\ Le(Zero, params.tau0)) =>
        /\ call.fn \in ServoDividers =>
              /\ Lt(Zero, Denominator)
              /\ call.fn \in {"tune_usort1_servo", "tune_usort2_servo"} => Lt(Zero, call.coeffs.b3)
              /\ pc = "tuned" => call.returned[2] = Mul(Div(Numerator, Denominator), params.T)
        /\ Denominator = Zero =>
              /\ call.fn = "tune_rovira_PI"
              /\ Lt(call.coeffs.d, Zero)
              /\ Lt(Zero, params.tau0)
              /\ params.tau0 = Div(call.coeffs.c, Mul(D(-1, 1), call.coeffs.d))

\* tune_mendez_ser_ITAE has divided by 1 + tau0 > 0 and returned a Ti > 0
C29_Witness ==
    /\ pc = "tuned"
    /\ call.fn = "tune_mendez_ser_ITAE"
    /\ Lt(Zero, params.tau0)
    /\ Lt(Zero, Denominator)
    /\ Lt(Zero, call.returned[2])

\* the rows of the printed table t that show the record x
RowsOf(t, x) ==
    {i \in 1..Len(printed[t]) :
        /\ printed[t][i][1] = x.Metodo /\ printed[t][i][2] = x.Variante
        /\ printed[t][i][3] = x.Modo /\ printed[t][i][4] = x.MsCriterio}

====
